---- MODULE Spec2Model ----
(***************************************************************************)
(* Negotiation orchestration of raas-web's webrtc-bridge library.          *)
(*                                                                         *)
(* Three views of the same code are specified:                               *)
(*                                                                         *)
(*   SpecLink    one viewer (Offerer) and one master (Answerer) side, each *)
(*               with its RTCPeerWrapper (PeerLink) and PeerMetadataChannel*)
(*               (ControlChannel): initial handshake over the signaling    *)
(*               client, the probe handshake and renegotiation.            *)
(*   SpecMaster  one RTCSignalingMaster session multiplexing several peers:*)
(*               inbound offers, replacement, ICE candidates.              *)
(*   SpecWrapper one RTCPeerWrapper and what it holds: streams, data       *)
(*               channels, the metadata channel, the connection; close().  *)
(*                                                                         *)
(* The RTCPeerConnection and RTCDataChannel are the browser's; they follow *)
(* the W3C WebRTC state machine (signalingState, the negotiation-needed    *)
(* flag, implicit rollback, InvalidStateError on a closed connection).     *)
(***************************************************************************)
EXTENDS Naturals, Sequences, FiniteSets

\* ------------------------------------------------------------- bounds
\* addStream/createDataChannel calls a user makes on one PeerLink
MaxMutations == 1
\* sdpOffers one side sends over the metadata channel
MaxOffers == 2
\* sdpOffer events the master session receives
MaxInbound == 2
\* iceCandidate events the master session receives
MaxCandidates == 1
\* sdpAnswer events the master session receives
MaxSignalingErrors == 1
\* close() calls a user makes on one RTCPeerWrapper
MaxCloseCalls == 2
\* cleanup() calls a user makes on one session
MaxCleanups == 1
\* addStream calls a user makes on one RTCPeerWrapper
MaxAddStreams == 2
\* candidates handed to addIceCandidate of one RTCPeerWrapper
MaxWrapperCandidates == 2
\* track events and datachannel events one RTCPeerWrapper receives
MaxTrackEvents == 2
MaxChannelEvents == 2
\* messages one PeerMetadataChannel receives, and send calls made on it
MaxControlMessages == 3
MaxControlSends == 1
\* session instances created, and getInstance calls made, for one role
MaxInstances == 2
MaxGetInstance == 2
\* robot ids in one list, and messages that reach one MetadataChannelViewer
MaxRobotIds == 2
MaxMetadataMessages == 2
\* calls of RobotDriver.connectRobot and of RobotDriver.connectUser
MaxConnectRobot == 3
MaxConnectUser == 3
\* start() calls on one session, and candidates the links of a master generate
MaxStarts == 3
MaxLocalCandidates == 2

Sides == {"viewer", "master"}

Other(s) == IF s = "viewer" THEN "master" ELSE "viewer"

VARIABLES
    \* ---- SpecLink: per side, the RTCPeerWrapper and its RTCPeerConnection
    exists,            \* the RTCPeerWrapper has been constructed
    sigState,          \* _peer.signalingState
    connState,         \* _peer.connectionState
    metadataChannel,   \* this._metadataChannel is defined
    chState,           \* readyState of the 'metadata' RTCDataChannel
    readyEvents,       \* 'ready' events the PeerMetadataChannel has emitted
    mutations,         \* addStream/createDataChannel calls made so far
    localCovered,      \* mutations contained in the negotiated local description
    negFlag,           \* the connection's [[NegotiationNeeded]] slot
    nnPc,              \* position of _onNegotiationNeeded
    nnOffer,           \* mutations contained in the offer createOffer produced
    rqPc,              \* the running _onNegotiationRequested invocations, oldest first
    initPc,            \* position of _sendInitialOfferViaSignalingClient (viewer)
    offerPc,           \* position of the master's 'sdpOffer' handler
    answerPc,          \* position of the viewer's 'sdpAnswer' handler
    awaitPc,           \* a caller's awaitReadyToNegotiate() promise
    ctl,               \* control messages in flight to each side, in send order
    rdv,               \* signaling-client messages in flight to each side
    log,               \* what each side has done so far (observation only)
    \* ---- SpecMaster: one RTCSignalingMaster session
    peerConnections,   \* this._peerConnections: the connection held per peer id, 0 for none
    conn,              \* the RTCPeerConnections the session has created
    offers,            \* sdpOffer events received per peer id
    callbacks,         \* invocations of the session's callbacks
    iceLog,            \* iceCandidate events received, and the last one
    session,           \* the RTCSignalingBase part: start(), the signaling client, _isRunning
    registry,          \* the static singleton of a session class and the instances created
    \* ---- SpecWrapper: one RTCPeerWrapper
    peer,              \* this._peer.connectionState
    streams,           \* this._streams, per key
    dataChannels,      \* this._dataChannels, per label
    wrapperMetadata,   \* this._metadataChannel and its channel's readyState
    closeLog,          \* close() calls and what each statement of close() did
    added,             \* addStream: the stream stored per label, the senders, calls and events
    ice,               \* the remote description and the candidates given to addIceCandidate
    intake,            \* track and datachannel events received, and the events emitted for them
    control,           \* one PeerMetadataChannel: its channel, what it received, emitted and sent
    \* ---- SpecRobots: the lab client's metadata channel pair
    robots,            \* what the master's channel sent, what is in flight, viewer.robotsAvailable
    \* ---- SpecDriver: one RobotDriver
    driver,            \* _robotConnected, connectRobot calls in flight, what the subclass was handed
    \* ---- SpecStart, SpecOutbound: start() calls of one session, candidates it sends
    starts,            \* start() calls of one viewer session, its signaling clients and links
    outbound           \* the last locally generated candidate of a master's link and where it went

linkVars == <<exists, sigState, connState, metadataChannel, chState, readyEvents,
              mutations, localCovered, negFlag, nnPc, nnOffer, rqPc, initPc,
              offerPc, answerPc, awaitPc, ctl, rdv, log>>

masterVars == <<peerConnections, conn, offers, callbacks, iceLog, session, registry>>

wrapperVars == <<peer, streams, dataChannels, wrapperMetadata, closeLog, added, ice,
                 intake, control>>

labVars == <<robots, driver>>

sessionVars == <<starts, outbound>>

vars == <<linkVars, masterVars, wrapperVars, labVars, sessionVars>>

\* ------------------------------------------------------------- wire format
\* PeerMetadataChannel.sendSDPOffer / sendSDPAnswer / _sendTestMessage: the
\* JSON object that JSON.stringify serialises, tagged by its type field.
SdpOfferMessage(desc) == [type |-> "sdpOffer", sdpOffer |-> desc]

SdpAnswerMessage(desc) == [type |-> "sdpAnswer", sdpAnswer |-> desc]

TestMessage == [type |-> "test", message |-> "helloworld"]

\* An RTCSessionDescription: its type and the local mutations it contains.
Description(t, n) == [type |-> t, contains |-> n]

\* What a side has done so far: offers and answers sent over the signaling
\* client (rdvOffer, rdvAnswer), sdpOffers sent over the metadata channel
\* (ctlOffer), whether the last of them is still unanswered (outstanding), the
\* mutation count at the first skipped negotiation (deferredMut), the largest
\* mutation count an sdpOffer sent so far contained (sentContains) and the
\* errors handed to a caller or to a session callback (surfaced).
LogZero == [rdvOffer |-> 0, rdvAnswer |-> 0, ctlOffer |-> 0, outstanding |-> FALSE,
            deferredMut |-> 0, sentContains |-> 0, surfaced |-> 0]

Bump(s, field) == [log EXCEPT ![s][field] = @ + 1]

\* ------------------------------------------------------------- Init
InitLink ==
    /\ exists = [s \in Sides |-> FALSE]
    /\ sigState = [s \in Sides |-> "stable"]
    /\ connState = [s \in Sides |-> "new"]
    /\ metadataChannel = [s \in Sides |-> FALSE]
    /\ chState = [s \in Sides |-> "connecting"]
    /\ readyEvents = [s \in Sides |-> 0]
    /\ mutations = [s \in Sides |-> 0]
    /\ localCovered = [s \in Sides |-> 0]
    /\ negFlag = [s \in Sides |-> FALSE]
    /\ nnPc = [s \in Sides |-> "idle"]
    /\ nnOffer = [s \in Sides |-> 0]
    /\ rqPc = [s \in Sides |-> <<>>]
    /\ initPc = "idle"
    /\ offerPc = "idle"
    /\ answerPc = "idle"
    /\ awaitPc = [s \in Sides |-> "none"]
    /\ ctl = [s \in Sides |-> <<>>]
    /\ rdv = [s \in Sides |-> <<>>]
    /\ log = [s \in Sides |-> LogZero]


\* ------------------------------------------------------------- platform
Closed(s) == connState[s] = "closed"

\* The connection's operations chain holds no createOffer / createAnswer /
\* setLocalDescription / setRemoteDescription of this side.
ChainEmpty(s) ==
    /\ nnPc[s] = "idle"
    /\ rqPc[s] = <<>>
    /\ s = "viewer" => /\ initPc \notin {"createOffer", "setLocalDescription"}
                       /\ answerPc # "setRemoteDescription"
    /\ s = "master" =>
          offerPc \notin {"setRemoteDescription", "createAnswer", "setLocalDescription"}

\* Both descriptions of the initial offer/answer are set on this side.
Described(s) ==
    IF s = "viewer" THEN answerPc \in {"awaitOpened", "awaitReady", "resolved", "done"}
                    ELSE offerPc = "done"

\* RTCDataChannel.send of PeerMetadataChannel._send: delivered in order to the
\* other side while the channel is open, InvalidStateError otherwise.
Send(s, msg) ==
    IF chState[s] = "open" THEN [ctl EXCEPT ![Other(s)] = Append(@, msg)] ELSE ctl


\* ------------------------------------------------------------- initial handshake
\* RTCSignalingViewer 'open' handler and the RTCPeerWrapper constructor with
\* sendInitialOffer: createDataChannel('metadata'), then
\* _sendInitialOfferViaSignalingClient starts with createOffer.
ViewerOpen ==
    /\ ~exists["viewer"]
    /\ exists' = [exists EXCEPT !["viewer"] = TRUE]
    /\ initPc' = "createOffer"
    /\ UNCHANGED <<sigState, connState, metadataChannel, chState, readyEvents,
                   mutations, localCovered, negFlag, nnPc, nnOffer, rqPc, offerPc,
                   answerPc, awaitPc, ctl, rdv, log,
                   masterVars, wrapperVars, labVars, sessionVars>>

\* createOffer resolved; setLocalDescription(offer) is called.
InitialOfferCreated ==
    /\ initPc = "createOffer"
    /\ IF Closed("viewer")
         THEN initPc' = "failed" /\ UNCHANGED nnOffer
         ELSE /\ initPc' = "setLocalDescription"
              /\ nnOffer' = [nnOffer EXCEPT !["viewer"] = mutations["viewer"]]
    /\ UNCHANGED <<exists, sigState, connState, metadataChannel, chState,
                   readyEvents, mutations, localCovered, negFlag, nnPc, rqPc,
                   offerPc, answerPc, awaitPc, ctl, rdv, log,
                   masterVars, wrapperVars, labVars, sessionVars>>

\* RTCSignalingBase.sendSdpOffer: the offer goes out over the signaling client.
SendSdpOffer(desc) == [rdv EXCEPT !["master"] = Append(@, desc)]

\* setLocalDescription(offer) resolved; the local description is sent with
\* this._signalingClient.sendSdpOffer.
InitialOfferSent ==
    /\ initPc = "setLocalDescription"
    /\ IF Closed("viewer")
         THEN /\ initPc' = "failed"
              /\ log' = log
              /\ UNCHANGED <<sigState, rdv>>
         ELSE /\ initPc' = "done"
              /\ sigState' = [sigState EXCEPT !["viewer"] = "have-local-offer"]
              /\ rdv' = SendSdpOffer(Description("offer", nnOffer["viewer"]))
              /\ log' = Bump("viewer", "rdvOffer")
    /\ UNCHANGED <<exists, connState, metadataChannel, chState, readyEvents,
                   mutations, localCovered, negFlag, nnPc, nnOffer, rqPc, offerPc,
                   answerPc, awaitPc, ctl,
                   masterVars, wrapperVars, labVars, sessionVars>>

\* RTCSignalingMaster 'sdpOffer' handler up to its first await: the new
\* RTCPeerConnection and RTCPeerWrapper, then setRemoteDescription(offer).
MasterSdpOffer ==
    /\ rdv["master"] # <<>>
    /\ Head(rdv["master"]).type = "offer"
    /\ offerPc = "idle"
    /\ rdv' = [rdv EXCEPT !["master"] = Tail(@)]
    /\ exists' = [exists EXCEPT !["master"] = TRUE]
    /\ offerPc' = "setRemoteDescription"
    /\ UNCHANGED <<sigState, connState, metadataChannel, chState, readyEvents,
                   mutations, localCovered, negFlag, nnPc, nnOffer, rqPc, initPc,
                   answerPc, awaitPc, ctl, log,
                   masterVars, wrapperVars, labVars, sessionVars>>

\* setRemoteDescription(offer) resolved; createAnswer is called.
MasterRemoteApplied ==
    /\ offerPc = "setRemoteDescription"
    /\ IF Closed("master")
         THEN /\ offerPc' = "failed"
              /\ log' = log
              /\ UNCHANGED sigState
         ELSE /\ offerPc' = "createAnswer"
              /\ sigState' = [sigState EXCEPT !["master"] = "have-remote-offer"]
              /\ log' = log
    /\ UNCHANGED <<exists, connState, metadataChannel, chState, readyEvents,
                   mutations, localCovered, negFlag, nnPc, nnOffer, rqPc, initPc,
                   answerPc, awaitPc, ctl, rdv,
                   masterVars, wrapperVars, labVars, sessionVars>>

\* createAnswer resolved; setLocalDescription(answer) is called.
MasterAnswerCreated ==
    /\ offerPc = "createAnswer"
    /\ IF Closed("master")
         THEN offerPc' = "failed" /\ log' = log
         ELSE offerPc' = "setLocalDescription" /\ log' = log
    /\ UNCHANGED <<exists, sigState, connState, metadataChannel, chState,
                   readyEvents, mutations, localCovered, negFlag, nnPc, nnOffer,
                   rqPc, initPc, answerPc, awaitPc, ctl, rdv,
                   masterVars, wrapperVars, labVars, sessionVars>>

\* signalingClient.sendSdpAnswer(localDescription, remoteClientId, correlationId)
SendSdpAnswer(desc) == [rdv EXCEPT !["viewer"] = Append(@, desc)]

\* setLocalDescription(answer) resolved; the answer goes out over the
\* signaling client. The handler ends here.
MasterAnswerSent ==
    /\ offerPc = "setLocalDescription"
    /\ IF Closed("master")
         THEN /\ offerPc' = "failed"
              /\ log' = log
              /\ UNCHANGED <<sigState, negFlag, rdv>>
         ELSE /\ offerPc' = "done"
              /\ sigState' = [sigState EXCEPT !["master"] = "stable"]
              /\ negFlag' = [negFlag EXCEPT !["master"] = FALSE]
              /\ rdv' = SendSdpAnswer(Description("answer", 0))
              /\ log' = Bump("master", "rdvAnswer")
    /\ UNCHANGED <<exists, connState, metadataChannel, chState, readyEvents,
                   mutations, localCovered, nnPc, nnOffer, rqPc, initPc,
                   answerPc, awaitPc, ctl,
                   masterVars, wrapperVars, labVars, sessionVars>>

\* RTCSignalingViewer 'sdpAnswer' handler up to its first await:
\* this._peerConnection.setRemoteDescription(answer).
ViewerSdpAnswer ==
    /\ rdv["viewer"] # <<>>
    /\ Head(rdv["viewer"]).type = "answer"
    /\ exists["viewer"]
    /\ answerPc = "idle"
    /\ rdv' = [rdv EXCEPT !["viewer"] = Tail(@)]
    /\ answerPc' = "setRemoteDescription"
    /\ UNCHANGED <<exists, sigState, connState, metadataChannel, chState,
                   readyEvents, mutations, localCovered, negFlag, nnPc, nnOffer,
                   rqPc, initPc, offerPc, awaitPc, ctl, log,
                   masterVars, wrapperVars, labVars, sessionVars>>

\* RTCPeerWrapper.isReadyToNegotiate
IsReadyToNegotiate(s) == metadataChannel[s]

\* A promise that is resolved as soon as it is made.
ResolvedAtOnce(s) == "resolved"

\* RTCPeerWrapper.awaitReadyToNegotiate: where the new promise stands after
\* the call.
AwaitReadyToNegotiate(s) ==
    IF IsReadyToNegotiate(s) THEN "resolved" ELSE "awaitOpened"

\* setRemoteDescription(answer) resolved; awaitReadyToNegotiate() is called.
ViewerAnswerApplied ==
    /\ answerPc = "setRemoteDescription"
    /\ IF Closed("viewer") \/ sigState["viewer"] # "have-local-offer"
         THEN /\ answerPc' = "failed"
              /\ UNCHANGED <<sigState, negFlag, localCovered>>
         ELSE /\ answerPc' = AwaitReadyToNegotiate("viewer")
              /\ sigState' = [sigState EXCEPT !["viewer"] = "stable"]
              /\ negFlag' = [negFlag EXCEPT !["viewer"] = FALSE]
              /\ localCovered' = [localCovered EXCEPT !["viewer"] = nnOffer["viewer"]]
    /\ UNCHANGED <<exists, connState, metadataChannel, chState, readyEvents,
                   mutations, nnPc, nnOffer, rqPc, initPc, offerPc,
                   awaitPc, ctl, rdv, log,
                   masterVars, wrapperVars, labVars, sessionVars>>

\* awaitReadyToNegotiate() resolved in the 'sdpAnswer' handler:
\* this._callbacks.onMasterConnected?.(this._peerConnection)
ViewerMasterConnected ==
    /\ answerPc = "resolved"
    /\ answerPc' = "done"
    /\ log' = log
    /\ UNCHANGED <<exists, sigState, connState, metadataChannel, chState,
                   readyEvents, mutations, localCovered, negFlag, nnPc, nnOffer,
                   rqPc, initPc, offerPc, awaitPc, ctl, rdv,
                   masterVars, wrapperVars, labVars, sessionVars>>

\* The transport connects once both sides hold both descriptions.
Connected(s) ==
    /\ exists[s]
    /\ connState[s] = "new"
    /\ \A t \in Sides : Described(t) /\ ~Closed(t)
    /\ connState' = [connState EXCEPT ![s] = "connected"]
    /\ UNCHANGED <<exists, sigState, metadataChannel, chState, readyEvents,
                   mutations, localCovered, negFlag, nnPc, nnOffer, rqPc, initPc,
                   offerPc, answerPc, awaitPc, ctl, rdv, log,
                   masterVars, wrapperVars, labVars, sessionVars>>


\* ------------------------------------------------------------- control channel
\* The listener awaitReadyToNegotiate registered with
\* once('metadataChannelOpened'): it registers once('ready') in turn.
OnMetadataChannelOpened(pc) == IF pc = "awaitOpened" THEN "awaitReady" ELSE pc

\* A listener that leaves the promise as it is.
NeverResolves(pc) == pc

\* The listener registered with once('ready'): it resolves the promise.
OnReady(pc) == IF pc = "awaitReady" THEN "resolved" ELSE pc

\* metadata.onopen of the channel the viewer's constructor created: the
\* PeerMetadataChannel is constructed (installs onmessage, sends the probe)
\* and 'metadataChannelOpened' is emitted.
MetadataOnOpen ==
    /\ exists["viewer"]
    /\ chState["viewer"] = "connecting"
    /\ \A t \in Sides : connState[t] = "connected"
    /\ chState' = [chState EXCEPT !["viewer"] = "open"]
    /\ metadataChannel' = [metadataChannel EXCEPT !["viewer"] = TRUE]
    /\ ctl' = [ctl EXCEPT !["master"] = Append(@, TestMessage)]
    /\ answerPc' = OnMetadataChannelOpened(answerPc)
    /\ awaitPc' = [awaitPc EXCEPT !["viewer"] = OnMetadataChannelOpened(@)]
    /\ UNCHANGED <<exists, sigState, connState, readyEvents, mutations,
                   localCovered, negFlag, nnPc, nnOffer, rqPc, initPc, offerPc,
                   rdv, log,
                   masterVars, wrapperVars, labVars, sessionVars>>

\* peer.ondatachannel on the master for the channel labelled 'metadata'.
OnDataChannel ==
    /\ exists["master"]
    /\ chState["master"] = "connecting"
    /\ chState["viewer"] # "closed"
    /\ \A t \in Sides : connState[t] = "connected"
    /\ chState' = [chState EXCEPT !["master"] = "open"]
    /\ metadataChannel' = [metadataChannel EXCEPT !["master"] = TRUE]
    /\ ctl' = [ctl EXCEPT !["viewer"] = Append(@, TestMessage)]
    /\ awaitPc' = [awaitPc EXCEPT !["master"] = OnMetadataChannelOpened(@)]
    /\ UNCHANGED <<exists, sigState, connState, readyEvents, mutations,
                   localCovered, negFlag, nnPc, nnOffer, rqPc, initPc, offerPc,
                   answerPc, rdv, log,
                   masterVars, wrapperVars, labVars, sessionVars>>

\* A message reaches this side's onmessage handler: the channel is open and
\* the PeerMetadataChannel has installed the handler.
Deliverable(s, type) ==
    /\ metadataChannel[s]
    /\ chState[s] = "open"
    /\ ctl[s] # <<>>
    /\ Head(ctl[s]).type = type

\* onmessage, case 'test': this.emit('ready')
OnTestMessage(s) ==
    /\ Deliverable(s, "test")
    /\ ctl' = [ctl EXCEPT ![s] = Tail(@)]
    /\ readyEvents' = [readyEvents EXCEPT ![s] = @ + 1]
    /\ awaitPc' = [awaitPc EXCEPT ![s] = OnReady(@)]
    /\ answerPc' = IF s = "viewer" THEN OnReady(answerPc) ELSE answerPc
    /\ UNCHANGED <<exists, sigState, connState, metadataChannel, chState,
                   mutations, localCovered, negFlag, nnPc, nnOffer, rqPc, initPc,
                   offerPc, rdv, log,
                   masterVars, wrapperVars, labVars, sessionVars>>

\* ------------------------------------------------------------- renegotiation
\* _onNegotiationNeeded up to its first await: where the handler stands after
\* the guard on this._metadataChannel.
OnNegotiationNeeded(s) == IF ~metadataChannel[s] THEN "idle" ELSE "createOffer"

\* The connection fires negotiationneeded: the signaling state is stable, the
\* operations chain is empty, the [[NegotiationNeeded]] slot is clear and a
\* mutation is not yet part of the negotiated description.
NegotiationNeeded(s) ==
    /\ exists[s]
    /\ ~Closed(s)
    /\ sigState[s] = "stable"
    /\ ChainEmpty(s)
    /\ ~negFlag[s]
    /\ mutations[s] > localCovered[s]
    /\ log[s].ctlOffer < MaxOffers
    /\ negFlag' = [negFlag EXCEPT ![s] = TRUE]
    /\ nnPc' = [nnPc EXCEPT ![s] = OnNegotiationNeeded(s)]
    /\ log' = IF OnNegotiationNeeded(s) = "idle" /\ log[s].deferredMut = 0
                THEN [log EXCEPT ![s].deferredMut = mutations[s]]
                ELSE log
    /\ UNCHANGED <<exists, sigState, connState, metadataChannel, chState,
                   readyEvents, mutations, localCovered, nnOffer, rqPc, initPc,
                   offerPc, answerPc, awaitPc, ctl, rdv,
                   masterVars, wrapperVars, labVars, sessionVars>>

\* createOffer resolved with an offer containing every mutation so far;
\* setLocalDescription(offer) is called.
NegotiationOfferCreated(s) ==
    /\ nnPc[s] = "createOffer"
    /\ IF Closed(s)
         THEN /\ nnPc' = [nnPc EXCEPT ![s] = "idle"]
              /\ log' = log
              /\ UNCHANGED nnOffer
         ELSE /\ nnPc' = [nnPc EXCEPT ![s] = "setLocalDescription"]
              /\ nnOffer' = [nnOffer EXCEPT ![s] = mutations[s]]
              /\ log' = log
    /\ UNCHANGED <<exists, sigState, connState, metadataChannel, chState,
                   readyEvents, mutations, localCovered, negFlag, rqPc, initPc,
                   offerPc, answerPc, awaitPc, ctl, rdv,
                   masterVars, wrapperVars, labVars, sessionVars>>

\* What sending a renegotiation offer over the signaling client instead
\* (signalingClient.sendSdpOffer in a negotiationneeded listener) would do.
SendSDPOfferOverSignaling(s, desc) ==
    [ctl |-> ctl, rdv |-> [rdv EXCEPT ![Other(s)] = Append(@, desc)]]

\* this._metadataChannel.sendSDPOffer(this._peer.localDescription): the
\* channels after _onNegotiationNeeded has sent its offer.
SendSDPOffer(s, desc) ==
    [ctl |-> Send(s, SdpOfferMessage(desc)), rdv |-> rdv]

\* setLocalDescription(offer) settled. It rejects unless the signaling state
\* is stable; on success the local description is sent as an sdpOffer.
NegotiationOfferSent(s) ==
    /\ nnPc[s] = "setLocalDescription"
    /\ nnPc' = [nnPc EXCEPT ![s] = "idle"]
    /\ IF Closed(s) \/ sigState[s] # "stable"
         THEN UNCHANGED <<sigState, ctl, rdv, log>>
         ELSE LET out == SendSDPOffer(s, Description("offer", nnOffer[s]))
              IN  /\ sigState' = [sigState EXCEPT ![s] = "have-local-offer"]
                  /\ ctl' = out.ctl
                  /\ rdv' = out.rdv
                  /\ log' = IF out.ctl # ctl
                              THEN [log EXCEPT ![s].ctlOffer = @ + 1,
                                               ![s].outstanding = TRUE,
                                               ![s].sentContains = nnOffer[s]]
                              ELSE IF out.rdv # rdv THEN Bump(s, "rdvOffer")
                              ELSE log
    /\ UNCHANGED <<exists, connState, metadataChannel, chState, readyEvents,
                   mutations, localCovered, negFlag, nnOffer, rqPc, initPc,
                   offerPc, answerPc, awaitPc,
                   masterVars, wrapperVars, labVars, sessionVars>>

\* onmessage, case 'sdpOffer': _onNegotiationRequested up to its await.
\* setRemoteDescription(offer) is called and NOT awaited, and createAnswer is
\* called at once: the handler waits for the answer with the application of
\* the offer still pending.
OnNegotiationRequested(offer) == [offer |-> offer, applied |-> "pending",
                                  pc |-> "createAnswer"]

OnSdpOfferMessage(s) ==
    /\ Deliverable(s, "sdpOffer")
    /\ ctl' = [ctl EXCEPT ![s] = Tail(@)]
    /\ rqPc' = [rqPc EXCEPT ![s] = Append(@, OnNegotiationRequested(Head(ctl[s]).sdpOffer))]
    /\ UNCHANGED <<exists, sigState, connState, metadataChannel, chState,
                   readyEvents, mutations, localCovered, negFlag, nnPc, nnOffer,
                   initPc, offerPc, answerPc, awaitPc, rdv, log,
                   masterVars, wrapperVars, labVars, sessionVars>>

\* The connection runs the setRemoteDescription(offer) of the oldest
\* invocation: from have-local-offer the pending local offer is rolled back.
RequestedRemoteApplied(s) ==
    /\ rqPc[s] # <<>>
    /\ Head(rqPc[s]).applied = "pending"
    /\ IF Closed(s)
         THEN /\ rqPc' = [rqPc EXCEPT ![s][1].applied = "failed"]
              /\ log' = log
              /\ UNCHANGED sigState
         ELSE /\ rqPc' = [rqPc EXCEPT ![s][1].applied = "ok"]
              /\ sigState' = [sigState EXCEPT ![s] = "have-remote-offer"]
              /\ log' = log
    /\ UNCHANGED <<exists, connState, metadataChannel, chState, readyEvents,
                   mutations, localCovered, negFlag, nnPc, nnOffer, initPc,
                   offerPc, answerPc, awaitPc, ctl, rdv,
                   masterVars, wrapperVars, labVars, sessionVars>>

\* createAnswer settled (after the setRemoteDescription queued before it): it
\* rejects unless a remote offer is set; then setLocalDescription(answer) is
\* called.
RequestedAnswerCreated(s) ==
    /\ rqPc[s] # <<>>
    /\ Head(rqPc[s]).applied # "pending"
    /\ Head(rqPc[s]).pc = "createAnswer"
    /\ IF Closed(s) \/ sigState[s] # "have-remote-offer"
         THEN /\ rqPc' = [rqPc EXCEPT ![s] = Tail(@)]
              /\ log' = log
         ELSE /\ rqPc' = [rqPc EXCEPT ![s][1].pc = "setLocalDescription"]
              /\ log' = log
    /\ UNCHANGED <<exists, sigState, connState, metadataChannel, chState,
                   readyEvents, mutations, localCovered, negFlag, nnPc, nnOffer,
                   initPc, offerPc, answerPc, awaitPc, ctl, rdv,
                   masterVars, wrapperVars, labVars, sessionVars>>

\* setLocalDescription(answer) settled; on success the answer is sent with
\* this._metadataChannel.sendSDPAnswer.
RequestedAnswerSent(s) ==
    /\ rqPc[s] # <<>>
    /\ Head(rqPc[s]).pc = "setLocalDescription"
    /\ rqPc' = [rqPc EXCEPT ![s] = Tail(@)]
    /\ IF Closed(s) \/ sigState[s] # "have-remote-offer"
         THEN UNCHANGED <<sigState, negFlag, ctl>>
         ELSE /\ sigState' = [sigState EXCEPT ![s] = "stable"]
              /\ negFlag' = [negFlag EXCEPT ![s] = FALSE]
              /\ ctl' = IF metadataChannel[s]
                          THEN Send(s, SdpAnswerMessage(Description("answer", 0)))
                          ELSE ctl
    /\ UNCHANGED <<exists, connState, metadataChannel, chState, readyEvents,
                   mutations, localCovered, nnPc, nnOffer, initPc, offerPc,
                   answerPc, awaitPc, rdv, log,
                   masterVars, wrapperVars, labVars, sessionVars>>

\* What an 'sdpAnswer' case that drops the answer would leave.
AnswerIgnored(s) == sigState

\* _onNegotiationAnswer: this._peer.setRemoteDescription(answer) on a
\* connection with a pending local offer.
OnNegotiationAnswer(s) == [sigState EXCEPT ![s] = "stable"]

\* onmessage, case 'sdpAnswer': _onNegotiationAnswer awaits
\* setRemoteDescription(answer), which rejects unless a local offer is pending.
OnSdpAnswerMessage(s) ==
    /\ Deliverable(s, "sdpAnswer")
    /\ ctl' = [ctl EXCEPT ![s] = Tail(@)]
    /\ IF Closed(s) \/ sigState[s] # "have-local-offer"
            \/ OnNegotiationAnswer(s) = sigState
         THEN UNCHANGED <<sigState, negFlag, localCovered>>
         ELSE /\ sigState' = OnNegotiationAnswer(s)
              /\ negFlag' = [negFlag EXCEPT ![s] = FALSE]
              /\ localCovered' = [localCovered EXCEPT ![s] = nnOffer[s]]
    /\ log' = [log EXCEPT ![s].outstanding = FALSE]
    /\ UNCHANGED <<exists, connState, metadataChannel, chState, readyEvents,
                   mutations, nnPc, nnOffer, rqPc, initPc, offerPc, answerPc,
                   awaitPc, rdv,
                   masterVars, wrapperVars, labVars, sessionVars>>

\* ------------------------------------------------------------- callers
\* RTCPeerWrapper.addStream: every track goes to this._peer.addTrack.
AddStream(s) ==
    /\ exists[s]
    /\ ~Closed(s)
    /\ mutations[s] < MaxMutations
    /\ mutations' = [mutations EXCEPT ![s] = @ + 1]
    /\ UNCHANGED <<exists, sigState, connState, metadataChannel, chState,
                   readyEvents, localCovered, negFlag, nnPc, nnOffer, rqPc,
                   initPc, offerPc, answerPc, awaitPc, ctl, rdv, log,
                   masterVars, wrapperVars, labVars, sessionVars>>

\* RTCPeerWrapper.createDataChannel: this._peer.createDataChannel(label)
CreateDataChannel(s) ==
    /\ exists[s]
    /\ ~Closed(s)
    /\ mutations[s] < MaxMutations
    /\ mutations' = [mutations EXCEPT ![s] = @ + 1]
    /\ UNCHANGED <<exists, sigState, connState, metadataChannel, chState,
                   readyEvents, localCovered, negFlag, nnPc, nnOffer, rqPc,
                   initPc, offerPc, answerPc, awaitPc, ctl, rdv, log,
                   masterVars, wrapperVars, labVars, sessionVars>>

\* A caller's awaitReadyToNegotiate().
CallAwaitReadyToNegotiate(s) ==
    /\ exists[s]
    /\ awaitPc[s] = "none"
    /\ awaitPc' = [awaitPc EXCEPT ![s] = AwaitReadyToNegotiate(s)]
    /\ UNCHANGED <<exists, sigState, connState, metadataChannel, chState,
                   readyEvents, mutations, localCovered, negFlag, nnPc, nnOffer,
                   rqPc, initPc, offerPc, answerPc, ctl, rdv, log,
                   masterVars, wrapperVars, labVars, sessionVars>>

\* RTCPeerWrapper.close: a no-op on a closed connection; otherwise the
\* metadata channel and the connection are closed. The other end of the
\* metadata channel closes with it and messages in flight are lost.
Close(s) ==
    /\ exists[s]
    /\ IF Closed(s)
         THEN UNCHANGED <<connState, sigState, chState, ctl>>
         ELSE /\ connState' = [connState EXCEPT ![s] = "closed"]
              /\ sigState' = [sigState EXCEPT ![s] = "closed"]
              /\ chState' = [t \in Sides |-> "closed"]
              /\ ctl' = [t \in Sides |-> <<>>]
    /\ UNCHANGED <<exists, metadataChannel, readyEvents, mutations, localCovered,
                   negFlag, nnPc, nnOffer, rqPc, initPc, offerPc, answerPc,
                   awaitPc, rdv, log,
                   masterVars, wrapperVars, labVars, sessionVars>>

\* ------------------------------------------------------------- master session
PeerIds == {"p1", "p2"}

Conns == 1..MaxInbound

\* The correlation id a viewer may put on its sdpOffer message, "none" for a
\* message without one.
CorrelationIds == {"none", "c1"}

\* RTCSignalingBase.generateCorrelationId: Date.now().toString(), the clock
\* reading at the time of the call.
GenerateCorrelationId == "now"

ConnZero == [owner |-> "none", state |-> "absent", handler |-> "none",
             correlationId |-> "none", sentTo |-> "none", sentCorrelationId |-> "none",
             tracks |-> "none", dataChannels |-> "none", candidates |-> {},
             answers |-> 0]

\* The RTCSignalingMaster after its constructor: an empty _peerConnections.
InitMaster ==
    /\ peerConnections = [p \in PeerIds |-> 0]
    /\ conn = [c \in Conns |-> ConnZero]
    /\ offers = [p \in PeerIds |-> 0]
    /\ callbacks = [onPeerConnected |-> 0, onSignalingError |-> 0,
                    onSignalingDisconnect |-> 0]
    /\ iceLog = [count |-> 0, peer |-> "none", listeners |-> {}, passedTo |-> {}]
    /\ session = [startPc |-> "idle", client |-> "none", registered |-> FALSE,
                  isRunning |-> FALSE, iceServers |-> {}, cleanups |-> 0]

\* RTCPeerConnection.close() called on the connection itself: the platform
\* closes its data channels and ends the tracks it receives.
RawClose(r) ==
    [r EXCEPT !.state = "closed",
              !.tracks = IF @ = "live" THEN "ended" ELSE @,
              !.dataChannels = IF @ = "open" THEN "closed" ELSE @]

\* How ChannelHelper.fetchTurnServers can end: a list of servers, a response
\* without IceServerList, a rejected request, a server without Uris.
FetchOutcomes == {"servers", "noList", "sendError", "noUris"}

\* ChannelHelper.fetchTurnServers: what start() gets back.
FetchTurnServers(outcome) ==
    CASE outcome = "servers" -> "list"
      [] outcome = "noList" -> "empty"
      [] OTHER -> "throws"

\* The signaling client delivers events to the handlers start() registered:
\* while it is open, and after close() until the connection has closed
\* (messages received before the closing handshake ends are still delivered).
Accepting == session.registered /\ session.client \in {"open", "closing"}

\* RTCSignalingBase.cleanup: getSignalingClient()?.close() on a client that
\* is open, is still connecting, or is neither.
ClientClose(client) ==
    CASE client = "open" -> "closing"
      [] client = "connecting" -> "aborting"
      [] OTHER -> client

\* RTCSignalingBase.start up to its first await: this._channelHelper.init()
MasterStart ==
    /\ session.startPc = "idle"
    /\ session' = [session EXCEPT !.startPc = "init"]
    /\ UNCHANGED <<peerConnections, conn, offers, callbacks, iceLog, registry,
                   linkVars, wrapperVars, labVars, sessionVars>>

\* init() resolved: the signaling client exists; the STUN server is pushed
\* and fetchTurnServers() is awaited.
MasterInitDone ==
    /\ session.startPc = "init"
    /\ session' = [session EXCEPT !.startPc = "fetch",
                                  !.client = IF @ = "none" THEN "created" ELSE @,
                                  !.iceServers = {"stun"}]
    /\ UNCHANGED <<peerConnections, conn, offers, callbacks, iceLog, registry,
                   linkVars, wrapperVars, labVars, sessionVars>>

\* fetchTurnServers() settled. When it throws, start() rejects there;
\* otherwise the callbacks are registered, the client is opened and
\* _isRunning is set.
MasterTurnFetched(outcome) ==
    /\ session.startPc = "fetch"
    /\ session' =
          IF FetchTurnServers(outcome) = "throws"
            THEN [session EXCEPT !.startPc = "failed"]
            ELSE [session EXCEPT
                    !.startPc = "done",
                    !.iceServers = IF FetchTurnServers(outcome) = "list"
                                     THEN @ \cup {"turn"} ELSE @,
                    !.registered = TRUE,
                    !.client = IF @ = "created" THEN "connecting" ELSE @,
                    !.isRunning = TRUE]
    /\ UNCHANGED <<peerConnections, conn, offers, callbacks, iceLog, registry,
                   linkVars, wrapperVars, labVars, sessionVars>>

\* signalingClient 'open' event: the master only logs it.
MasterOnOpen ==
    /\ session.client = "connecting"
    /\ session' = [session EXCEPT !.client = "open"]
    /\ UNCHANGED <<peerConnections, conn, offers, callbacks, iceLog, registry,
                   linkVars, wrapperVars, labVars, sessionVars>>

\* RTCSignalingMaster.cleanup running to its end: the signaling client is
\* closed, every connection held is closed through _internalPeerConnection,
\* the map is cleared and onSignalingDisconnect is called.
MasterCleanup ==
    /\ session.cleanups < MaxCleanups
    /\ session.client # "none"
    /\ session' = [session EXCEPT !.cleanups = @ + 1,
                                  !.client = ClientClose(@)]
    /\ conn' = [c \in Conns |->
                  IF \E p \in PeerIds : peerConnections[p] = c
                    THEN RawClose(conn[c]) ELSE conn[c]]
    /\ peerConnections' = [p \in PeerIds |-> 0]
    /\ callbacks' = [callbacks EXCEPT !.onSignalingDisconnect = @ + 1]
    /\ UNCHANGED <<offers, iceLog, registry,
                   linkVars, wrapperVars, labVars, sessionVars>>

\* cleanup() when it throws: getSignalingClient() before init() has created
\* the client, or _internalPeerConnection undefined on a wrapper held in the
\* map (the signaling client is closed by then, nothing after it runs).
MasterCleanupThrows ==
    /\ session.cleanups < MaxCleanups
    /\ session.client = "none" \/ \E p \in PeerIds : peerConnections[p] # 0
    /\ session' = [session EXCEPT !.cleanups = @ + 1,
                                  !.client = ClientClose(@)]
    /\ UNCHANGED <<peerConnections, conn, offers, callbacks, iceLog, registry,
                   linkVars, wrapperVars, labVars, sessionVars>>

\* signalingClient 'close' event, after close() or when the service ends the
\* connection: onSignalingDisconnect is called.
MasterOnClose ==
    /\ session.client \in {"open", "closing", "aborting"}
    /\ session' = [session EXCEPT !.client = "closed"]
    /\ callbacks' = [callbacks EXCEPT !.onSignalingDisconnect = @ + 1]
    /\ UNCHANGED <<peerConnections, conn, offers, iceLog, registry,
                   linkVars, wrapperVars, labVars, sessionVars>>

\* RTCSignalingBase.isRunning
IsRunning == session.isRunning

Created == {c \in Conns : conn[c].state # "absent"}

Inbound == Cardinality({<<p, i>> \in PeerIds \X (1..MaxInbound) : i <= offers[p]})

\* 'sdpOffer' handler, lines 261-264: the connection held for this peer id,
\* if any and not closed, is closed through _internalPeerConnection.
CloseOld(p) ==
    IF peerConnections[p] # 0 /\ conn[peerConnections[p]].state # "closed"
      THEN [conn EXCEPT ![peerConnections[p]] = RawClose(@)]
      ELSE conn

\* 'sdpOffer' handler up to its first await: the old connection is closed, a
\* new RTCPeerConnection and RTCPeerWrapper are created and stored under the
\* peer id, the handler's addIceCandidate listener is registered and
\* setRemoteDescription(offer) is called.
MasterOnSdpOffer(p, correlationId) ==
    /\ Accepting
    /\ Inbound < MaxInbound
    /\ LET c == Cardinality(Created) + 1
       IN  /\ conn' = [CloseOld(p) EXCEPT ![c] =
                          [ConnZero EXCEPT !.owner = p, !.state = "new",
                                           !.correlationId = correlationId,
                                           !.handler = "setRemoteDescription"]]
           /\ peerConnections' = [peerConnections EXCEPT ![p] = c]
    /\ offers' = [offers EXCEPT ![p] = @ + 1]
    /\ UNCHANGED <<callbacks, iceLog, session, registry,
                   linkVars, wrapperVars, labVars, sessionVars>>

\* The same handler when a wrapper is already held for the peer id and
\* RTCPeerWrapper has no _internalPeerConnection member: reading
\* connectionState of undefined throws and the handler ends there.
MasterOnSdpOfferThrows(p) ==
    /\ Accepting
    /\ Inbound < MaxInbound
    /\ peerConnections[p] # 0
    /\ offers' = [offers EXCEPT ![p] = @ + 1]
    /\ UNCHANGED <<peerConnections, conn, callbacks, iceLog, session, registry,
                   linkVars, wrapperVars, labVars, sessionVars>>

\* await peerConnection.setRemoteDescription(offer) settled.
MasterOfferApplied(c) ==
    /\ conn[c].handler = "setRemoteDescription"
    /\ conn' = [conn EXCEPT ![c].handler =
                   IF conn[c].state = "closed" THEN "failed" ELSE "createAnswer"]
    /\ UNCHANGED <<peerConnections, offers, callbacks, iceLog, session, registry,
                   linkVars, wrapperVars, labVars, sessionVars>>

\* await peerConnection.createAnswer(...) settled.
MasterAnswerMade(c) ==
    /\ conn[c].handler = "createAnswer"
    /\ conn' = [conn EXCEPT ![c].handler =
                   IF conn[c].state = "closed" THEN "failed" ELSE "setLocalDescription"]
    /\ UNCHANGED <<peerConnections, offers, callbacks, iceLog, session, registry,
                   linkVars, wrapperVars, labVars, sessionVars>>

\* await peerConnection.setLocalDescription(answer) settled; the answer is
\* sent with signalingClient.sendSdpAnswer(localDescription, remoteClientId,
\* correlationId) and the handler returns. On a signaling client that is
\* not open the send throws.
MasterAnswered(c) ==
    /\ conn[c].handler = "setLocalDescription"
    /\ conn' = IF conn[c].state = "closed" \/ session.client # "open"
                 THEN [conn EXCEPT ![c].handler = "failed"]
                 ELSE [conn EXCEPT ![c].handler = "done", ![c].answers = @ + 1,
                                   ![c].sentTo = conn[c].owner,
                                   ![c].sentCorrelationId = GenerateCorrelationId]
    /\ UNCHANGED <<peerConnections, offers, callbacks, iceLog, session, registry,
                   linkVars, wrapperVars, labVars, sessionVars>>

\* What a listener without the guard on the sender would do.
CandidateAcceptedFromAnyone(c, p) == TRUE

\* addIceCandidate closure: if (remoteClientId !== candidateClientId) return
CandidateAccepted(c, p) == conn[c].owner = p

\* signalingClient 'iceCandidate' event from peer p: every listener
\* registered so far runs (none is ever removed); a listener that accepts
\* the candidate passes it to its own peerConnection.addIceCandidate.
MasterOnIceCandidate(p) ==
    /\ Accepting
    /\ iceLog.count < MaxCandidates
    /\ conn' = [c \in Conns |->
                  IF c \in Created /\ CandidateAccepted(c, p)
                    THEN [conn[c] EXCEPT !.candidates = @ \cup {p}]
                    ELSE conn[c]]
    /\ iceLog' = [count |-> iceLog.count + 1, peer |-> p, listeners |-> Created,
                 passedTo |-> {c \in Created : CandidateAccepted(c, p)}]
    /\ UNCHANGED <<peerConnections, offers, callbacks, session, registry,
                   linkVars, wrapperVars, labVars, sessionVars>>

\* signalingClient 'sdpAnswer' event: the master expects none and calls
\* onSignalingError.
MasterOnSdpAnswer ==
    /\ Accepting
    /\ callbacks.onSignalingError < MaxSignalingErrors
    /\ callbacks' = [callbacks EXCEPT !.onSignalingError = @ + 1]
    /\ UNCHANGED <<peerConnections, conn, offers, iceLog, session, registry,
                   linkVars, wrapperVars, labVars, sessionVars>>

\* peer.ontrack of a master-side wrapper: a remote stream enters _streams.
MasterOnTrack(c) ==
    /\ conn[c].state = "new"
    /\ conn[c].handler = "done"
    /\ conn[c].tracks = "none"
    /\ conn' = [conn EXCEPT ![c].tracks = "live"]
    /\ UNCHANGED <<peerConnections, offers, callbacks, iceLog, session, registry,
                   linkVars, wrapperVars, labVars, sessionVars>>

\* peer.ondatachannel of a master-side wrapper: a remote channel enters
\* _dataChannels.
MasterOnDataChannel(c) ==
    /\ conn[c].state = "new"
    /\ conn[c].handler = "done"
    /\ conn[c].dataChannels = "none"
    /\ conn' = [conn EXCEPT ![c].dataChannels = "open"]
    /\ UNCHANGED <<peerConnections, offers, callbacks, iceLog, session, registry,
                   linkVars, wrapperVars, labVars, sessionVars>>

NextMaster ==
    \/ \E p \in PeerIds :
          \/ \E correlationId \in CorrelationIds : MasterOnSdpOffer(p, correlationId)
          \/ MasterOnSdpOfferThrows(p)
          \/ MasterOnIceCandidate(p)
    \/ \E c \in Conns :
          \/ MasterOfferApplied(c)
          \/ MasterAnswerMade(c)
          \/ MasterAnswered(c)
          \/ MasterOnTrack(c)
          \/ MasterOnDataChannel(c)
    \/ MasterOnSdpAnswer
    \/ MasterStart
    \/ MasterInitDone
    \/ \E outcome \in FetchOutcomes : MasterTurnFetched(outcome)
    \/ MasterOnOpen
    \/ MasterCleanup
    \/ MasterCleanupThrows
    \/ MasterOnClose

\* ------------------------------------------------------------- session singleton
Instances == 1..MaxInstances

InstanceZero == [made |-> FALSE, callbacks |-> 0, startPc |-> "idle",
                 client |-> "none", cleanups |-> 0, stopped |-> FALSE]

\* The session class before any getInstance: singleton is undefined.
InitRegistry ==
    registry = [singleton |-> 0, inst |-> [i \in Instances |-> InstanceZero],
                calls |-> 0, notified |-> {}]

\* getInstance(callbacks): a new instance when singleton is undefined,
\* otherwise the existing one with its _callbacks replaced.
GetInstance ==
    /\ registry.calls < MaxGetInstance
    /\ IF registry.singleton = 0
         THEN \E i \in Instances :
                 /\ ~registry.inst[i].made
                 /\ \A h \in Instances : h < i => registry.inst[h].made
                 /\ registry' = [registry EXCEPT
                        !.singleton = i,
                        !.calls = @ + 1,
                        !.inst[i] = [InstanceZero EXCEPT !.made = TRUE,
                                                         !.callbacks = registry.calls + 1]]
         ELSE registry' = [registry EXCEPT
                  !.calls = @ + 1,
                  !.inst[registry.singleton].callbacks = registry.calls + 1]
    /\ UNCHANGED <<peerConnections, conn, offers, callbacks, iceLog, session,
                   linkVars, wrapperVars, labVars, sessionVars>>

\* start() on an instance, up to its first await: this._channelHelper.init()
SessionStart(i) ==
    /\ registry.inst[i].made
    /\ registry.inst[i].startPc = "idle"
    /\ registry' = [registry EXCEPT !.inst[i].startPc = "init"]
    /\ UNCHANGED <<peerConnections, conn, offers, callbacks, iceLog, session,
                   linkVars, wrapperVars, labVars, sessionVars>>

\* init() resolved: the signaling client exists; fetchTurnServers() is
\* awaited.
SessionInitDone(i) ==
    /\ registry.inst[i].startPc = "init"
    /\ registry' = [registry EXCEPT !.inst[i].startPc = "fetch",
                                    !.inst[i].client = "created"]
    /\ UNCHANGED <<peerConnections, conn, offers, callbacks, iceLog, session,
                   linkVars, wrapperVars, labVars, sessionVars>>

\* fetchTurnServers() settled: start() ends there if it threw, otherwise it
\* registers the handlers and calls signalingClient.open().
SessionTurnFetched(i, outcome) ==
    /\ registry.inst[i].startPc = "fetch"
    /\ registry' =
          IF FetchTurnServers(outcome) = "throws"
            THEN [registry EXCEPT !.inst[i].startPc = "failed"]
            ELSE [registry EXCEPT
                    !.inst[i].startPc = "done",
                    !.inst[i].client = IF @ = "created" THEN "connecting" ELSE @]
    /\ UNCHANGED <<peerConnections, conn, offers, callbacks, iceLog, session,
                   linkVars, wrapperVars, labVars, sessionVars>>

\* signalingClient 'open' event of an instance.
SessionOnOpen(i) ==
    /\ registry.inst[i].client = "connecting"
    /\ registry' = [registry EXCEPT !.inst[i].client = "open"]
    /\ UNCHANGED <<peerConnections, conn, offers, callbacks, iceLog, session,
                   linkVars, wrapperVars, labVars, sessionVars>>

\* cleanup() on an instance: super.cleanup() throws when init() has not
\* created the client yet; otherwise the client is closed,
\* onSignalingDisconnect of the current callbacks is called and the static
\* singleton is set to undefined, whichever instance it holds.
SessionCleanup(i) ==
    /\ registry.inst[i].made
    /\ registry.inst[i].cleanups < MaxCleanups
    /\ registry' =
          IF registry.inst[i].client = "none"
            THEN [registry EXCEPT !.inst[i].cleanups = @ + 1]
            ELSE [registry EXCEPT
                    !.inst[i].cleanups = @ + 1,
                    !.inst[i].client = ClientClose(@),
                    !.inst[i].stopped = TRUE,
                    !.notified = @ \cup {registry.inst[i].callbacks},
                    !.singleton = 0]
    /\ UNCHANGED <<peerConnections, conn, offers, callbacks, iceLog, session,
                   linkVars, wrapperVars, labVars, sessionVars>>

\* signalingClient 'close' event of an instance: onSignalingDisconnect of the
\* callbacks it holds at that time.
SessionOnClose(i) ==
    /\ registry.inst[i].client \in {"open", "closing", "aborting"}
    /\ registry' = [registry EXCEPT
                      !.inst[i].client = "closed",
                      !.notified = @ \cup {registry.inst[i].callbacks}]
    /\ UNCHANGED <<peerConnections, conn, offers, callbacks, iceLog, session,
                   linkVars, wrapperVars, labVars, sessionVars>>

\* An instance whose signaling client is connecting or open.
Live(i) == registry.inst[i].client \in {"connecting", "open"}

NextSingleton ==
    \/ GetInstance
    \/ \E i \in Instances :
          \/ SessionStart(i)
          \/ SessionInitDone(i)
          \/ \E outcome \in FetchOutcomes : SessionTurnFetched(i, outcome)
          \/ SessionOnOpen(i)
          \/ SessionCleanup(i)
          \/ SessionOnClose(i)

\* ------------------------------------------------------------- one wrapper
\* Keys of _streams: the label a caller gives to addStream, or the id of a
\* remote stream.
StreamKeys == {"k1", "k2"}

\* The MediaStream objects a caller has, one track each.
LocalStreams == {"s1", "s2"}

\* Labels of data channels.
Labels == {"metadata", "data"}

CloseLogZero == [calls |-> 0, dataChannels |-> 0, tracks |-> 0, metadata |-> 0,
                 peer |-> 0]

\* The RTCPeerWrapper after its constructor.
InitWrapper ==
    /\ peer = "new"
    /\ streams = [k \in StreamKeys |-> "absent"]
    /\ dataChannels = [l \in Labels |-> "absent"]
    /\ wrapperMetadata = "none"
    /\ closeLog = CloseLogZero
    /\ added = [stored |-> [k \in StreamKeys |-> "none"], senders |-> {},
                calls |-> 0, localStreamAdded |-> 0]
    /\ intake = [tracks |-> [k \in StreamKeys |-> 0],
                 remoteStreamAdded |-> [k \in StreamKeys |-> 0],
                 channels |-> [l \in Labels |-> 0],
                 remoteDataChannelOpened |-> 0,
                 metadataChannelOpened |-> 0]
    /\ ice = [remote |-> "none", received |-> 0, chained |-> 0, applied |-> 0,
              rejected |-> 0, refused |-> 0]

\* RTCPeerConnection.addTrack for the tracks of a stream: InvalidStateError
\* on a closed connection, InvalidAccessError when a sender already exists
\* for the track.
AddTrackThrows(st) == peer = "closed" \/ st \in added.senders

\* RTCPeerWrapper.addStream: this._streams.set(label, stream) comes first,
\* then addTrack for every track, then emit('localStreamAdded', stream); the
\* stream is stored even when addTrack throws, and nothing is emitted then.
WrapperAddStream(k, st) ==
    /\ added.calls < MaxAddStreams
    /\ streams' = [streams EXCEPT ![k] = "local"]
    /\ added' = IF AddTrackThrows(st)
                  THEN [added EXCEPT !.stored[k] = st, !.calls = @ + 1]
                  ELSE [added EXCEPT !.stored[k] = st, !.calls = @ + 1,
                                     !.senders = @ \cup {st},
                                     !.localStreamAdded = @ + 1]
    /\ UNCHANGED <<peer, dataChannels, wrapperMetadata, closeLog, ice, intake,
                   control, linkVars, masterVars, labVars, sessionVars>>

\* RTCPeerWrapper.createDataChannel: this._peer.createDataChannel throws on
\* a closed connection, before anything is stored.
WrapperCreateDataChannel(l) ==
    /\ peer # "closed"
    /\ dataChannels' = [dataChannels EXCEPT ![l] = "open"]
    /\ UNCHANGED <<peer, streams, wrapperMetadata, closeLog, added, ice, intake,
                   control, linkVars, masterVars, labVars, sessionVars>>

\* Track events and datachannel events received so far.
TrackEvents == intake.tracks["k1"] + intake.tracks["k2"]
ChannelEvents == intake.channels["metadata"] + intake.channels["data"]

\* peer.ontrack for a track that comes with a stream: the stream is stored
\* under its id and 'remoteStreamAdded' is emitted unless the key is taken, in
\* which case the track joins the stream already stored and nothing is
\* emitted.
WrapperOnTrack(k) ==
    /\ peer # "closed"
    /\ TrackEvents < MaxTrackEvents
    /\ IF streams[k] = "absent"
         THEN /\ streams' = [streams EXCEPT ![k] = "remote"]
              /\ intake' = [intake EXCEPT !.tracks[k] = @ + 1,
                                          !.remoteStreamAdded[k] = @ + 1]
         ELSE /\ streams' = streams
              /\ intake' = [intake EXCEPT !.tracks[k] = @ + 1]
    /\ UNCHANGED <<peer, dataChannels, wrapperMetadata, closeLog, added, ice,
                   control, linkVars, masterVars, labVars, sessionVars>>

\* peer.ontrack for a track that comes with no stream: a new MediaStream is
\* made for it, stored under its own fresh id, and 'remoteStreamAdded' is
\* emitted.
WrapperOnTrackNoStream(k) ==
    /\ peer # "closed"
    /\ TrackEvents < MaxTrackEvents
    /\ streams[k] = "absent"
    /\ streams' = [streams EXCEPT ![k] = "remote"]
    /\ intake' = [intake EXCEPT !.tracks[k] = @ + 1, !.remoteStreamAdded[k] = @ + 1]
    /\ UNCHANGED <<peer, dataChannels, wrapperMetadata, closeLog, added, ice,
                   control, linkVars, masterVars, labVars, sessionVars>>

\* A test no label passes.
NoLabelIsMetadata(l) == FALSE

\* event.channel.label === 'metadata'
IsMetadataLabel(l) == l = "metadata"

\* peer.ondatachannel: the channel labelled 'metadata' becomes a new
\* PeerMetadataChannel and 'metadataChannelOpened' is emitted; any other is
\* stored in _dataChannels and 'remoteDataChannelOpened' is emitted.
WrapperOnDataChannel(l) ==
    /\ peer # "closed"
    /\ ChannelEvents < MaxChannelEvents
    /\ IF IsMetadataLabel(l)
         THEN /\ wrapperMetadata' = "open"
              /\ intake' = [intake EXCEPT !.channels[l] = @ + 1,
                                          !.metadataChannelOpened = @ + 1]
              /\ UNCHANGED dataChannels
         ELSE /\ dataChannels' = [dataChannels EXCEPT ![l] = "open"]
              /\ intake' = [intake EXCEPT !.channels[l] = @ + 1,
                                          !.remoteDataChannelOpened = @ + 1]
              /\ UNCHANGED wrapperMetadata
    /\ UNCHANGED <<peer, streams, closeLog, added, ice, control, linkVars, masterVars, labVars, sessionVars>>

\* metadata.onopen of the channel a wrapper with sendInitialOffer created.
WrapperMetadataOnOpen ==
    /\ peer # "closed"
    /\ wrapperMetadata = "none"
    /\ wrapperMetadata' = "open"
    /\ UNCHANGED <<peer, streams, dataChannels, closeLog, added, ice, intake,
                   control, linkVars, masterVars, labVars, sessionVars>>

\* setRemoteDescription is called on the connection: by
\* RTCPeerWrapper.setRemoteDescription for the viewer's answer, by the
\* master's 'sdpOffer' handler for the offer. The operation is queued on the
\* connection's operations chain.
WrapperSetRemoteDescription ==
    /\ peer # "closed"
    /\ ice.remote = "none"
    /\ ice' = [ice EXCEPT !.remote = "applying"]
    /\ UNCHANGED <<peer, streams, dataChannels, wrapperMetadata, closeLog, added,
                   intake,
                   control, linkVars, masterVars, labVars, sessionVars>>

\* The queued setRemoteDescription completes, and the addIceCandidate
\* operations chained behind it run: they apply their candidates. On a
\* connection closed meanwhile the chain is abandoned.
WrapperRemoteApplied ==
    /\ ice.remote = "applying"
    /\ ice' = IF peer = "closed"
                THEN [ice EXCEPT !.remote = "none", !.chained = 0]
                ELSE [ice EXCEPT !.remote = "set", !.chained = 0,
                                 !.applied = @ + ice.chained]
    /\ UNCHANGED <<peer, streams, dataChannels, wrapperMetadata, closeLog, added,
                   intake,
                   control, linkVars, masterVars, labVars, sessionVars>>

\* RTCPeerWrapper.addIceCandidate: this._peer.addIceCandidate(candidate) and
\* nothing else. The platform rejects with InvalidStateError on a closed
\* connection and on one whose remote description is null; behind a
\* setRemoteDescription still on the operations chain the candidate waits.
WrapperAddIceCandidate ==
    /\ ice.received < MaxWrapperCandidates
    /\ ice' = IF peer = "closed"
                THEN [ice EXCEPT !.received = @ + 1, !.refused = @ + 1]
                ELSE IF ice.remote = "applying"
                THEN [ice EXCEPT !.received = @ + 1, !.chained = @ + 1]
                ELSE IF ice.remote = "set"
                THEN [ice EXCEPT !.received = @ + 1, !.applied = @ + 1]
                ELSE [ice EXCEPT !.received = @ + 1, !.rejected = @ + 1]
    /\ UNCHANGED <<peer, streams, dataChannels, wrapperMetadata, closeLog, added,
                   intake,
                   control, linkVars, masterVars, labVars, sessionVars>>

\* What close() would test if it had no early return.
NeverAlreadyClosed == FALSE

\* close(): if (this._peer.connectionState === 'closed') return
AlreadyClosed == peer = "closed"

\* RTCPeerWrapper.close
WrapperClose ==
    /\ closeLog.calls < MaxCloseCalls
    /\ IF AlreadyClosed
         THEN /\ closeLog' = [closeLog EXCEPT !.calls = @ + 1]
              /\ UNCHANGED <<peer, streams, dataChannels, wrapperMetadata>>
         ELSE /\ dataChannels' = [l \in Labels |->
                    IF dataChannels[l] = "open" THEN "closed" ELSE dataChannels[l]]
              /\ streams' = [k \in StreamKeys |->
                    IF streams[k] \in {"local", "remote"} THEN "ended" ELSE streams[k]]
              /\ wrapperMetadata' = IF wrapperMetadata = "open" THEN "closed"
                                                                ELSE wrapperMetadata
              /\ peer' = "closed"
              /\ closeLog' = [calls |-> closeLog.calls + 1,
                              dataChannels |-> closeLog.dataChannels + 1,
                              tracks |-> closeLog.tracks + 1,
                              metadata |-> IF wrapperMetadata = "none"
                                             THEN closeLog.metadata
                                             ELSE closeLog.metadata + 1,
                              peer |-> closeLog.peer + 1]
    /\ UNCHANGED <<added, ice, intake,
                   control, linkVars, masterVars, labVars, sessionVars>>

\* The session closes the connection itself, around the wrapper
\* (RTCSignalingMaster, _internalPeerConnection.close()): the platform closes
\* the data channels and ends the tracks received; local tracks stay live.
WrapperRawClose ==
    /\ peer # "closed"
    /\ peer' = "closed"
    /\ dataChannels' = [l \in Labels |->
          IF dataChannels[l] = "open" THEN "closed" ELSE dataChannels[l]]
    /\ streams' = [k \in StreamKeys |->
          IF streams[k] = "remote" THEN "ended" ELSE streams[k]]
    /\ wrapperMetadata' = IF wrapperMetadata = "open" THEN "closed" ELSE wrapperMetadata
    /\ UNCHANGED <<closeLog, added, ice, intake,
                   control, linkVars, masterVars, labVars, sessionVars>>

NextWrapper ==
    \/ \E k \in StreamKeys :
          \/ \E st \in LocalStreams : WrapperAddStream(k, st)
          \/ WrapperOnTrack(k)
          \/ WrapperOnTrackNoStream(k)
    \/ \E l \in Labels :
          \/ WrapperCreateDataChannel(l)
          \/ WrapperOnDataChannel(l)
    \/ WrapperMetadataOnOpen
    \/ WrapperClose
    \/ WrapperRawClose

\* The same wrapper, seen for its remote description and its candidates only.
NextIce ==
    \/ WrapperSetRemoteDescription
    \/ WrapperRemoteApplied
    \/ WrapperAddIceCandidate
    \/ WrapperMetadataOnOpen
    \/ WrapperClose
    \/ WrapperRawClose

\* ------------------------------------------------------------- one PeerMetadataChannel
\* The type field of a message that reaches onmessage; "other" is any value
\* the switch has no case for.
MessageTypes == {"test", "sdpOffer", "sdpAnswer", "other"}

\* The PeerMetadataChannel after its constructor, made on an open channel:
\* onmessage is installed and _sendTestMessage has sent the probe.
InitControl ==
    control = [channel |-> "open", received |-> 0, last |-> "none",
               probes |-> 0, ready |-> 0,
               onSdpOffer |-> 0, onSdpAnswer |-> 0, unknown |-> 0,
               sent |-> <<"test">>, sendCalls |-> 0]

\* A channel whose every message is a probe.
EveryMessageIsProbe(type) ==
    [control EXCEPT !.received = @ + 1, !.probes = @ + 1, !.ready = @ + 1]

\* this._channel.onmessage: the switch on message.type.
OnMessage(type) ==
    CASE type = "sdpOffer" ->
           [control EXCEPT !.received = @ + 1, !.onSdpOffer = @ + 1]
      [] type = "sdpAnswer" ->
           [control EXCEPT !.received = @ + 1, !.onSdpAnswer = @ + 1]
      [] type = "test" ->
           [control EXCEPT !.received = @ + 1, !.probes = @ + 1, !.ready = @ + 1]
      [] OTHER ->
           [control EXCEPT !.received = @ + 1, !.unknown = @ + 1]

\* A message is delivered to onmessage of an open channel.
ChannelOnMessage(type) ==
    /\ control.channel = "open"
    /\ control.received < MaxControlMessages
    /\ control' = [OnMessage(type) EXCEPT !.last = type]
    /\ UNCHANGED <<peer, streams, dataChannels, wrapperMetadata, closeLog, added,
                   ice, intake, linkVars, masterVars, labVars, sessionVars>>

\* PeerMetadataChannel._send: this._channel.send(message), which throws
\* InvalidStateError on a channel that is not open.
ChannelSend(type) ==
    IF control.channel = "open"
      THEN [control EXCEPT !.sent = Append(@, type), !.sendCalls = @ + 1]
      ELSE [control EXCEPT !.sendCalls = @ + 1]

\* PeerMetadataChannel.sendSDPOffer
ChannelSendSDPOffer ==
    /\ control.sendCalls < MaxControlSends
    /\ control' = ChannelSend("sdpOffer")
    /\ UNCHANGED <<peer, streams, dataChannels, wrapperMetadata, closeLog, added,
                   ice, intake, linkVars, masterVars, labVars, sessionVars>>

\* PeerMetadataChannel.sendSDPAnswer
ChannelSendSDPAnswer ==
    /\ control.sendCalls < MaxControlSends
    /\ control' = ChannelSend("sdpAnswer")
    /\ UNCHANGED <<peer, streams, dataChannels, wrapperMetadata, closeLog, added,
                   ice, intake, linkVars, masterVars, labVars, sessionVars>>

\* PeerMetadataChannel.close: this._channel.close()
ChannelClose ==
    /\ control.channel = "open"
    /\ control' = [control EXCEPT !.channel = "closed"]
    /\ UNCHANGED <<peer, streams, dataChannels, wrapperMetadata, closeLog, added,
                   ice, intake, linkVars, masterVars, labVars, sessionVars>>

NextControl ==
    \/ \E type \in MessageTypes : ChannelOnMessage(type)
    \/ ChannelSendSDPOffer
    \/ ChannelSendSDPAnswer
    \/ ChannelClose

\* ------------------------------------------------------------- lab client: metadata channel
\* MType
MType == {"robotsAvailable"}

RobotIdValues == {"robot1", "robot2"}

\* string[] values of at most MaxRobotIds entries.
RobotIdLists == UNION {[1..n -> RobotIdValues] : n \in 0..MaxRobotIds}

\* JSON text as the sequence of its tokens.
Punct(c) == [t |-> c, v |-> ""]
Str(v) == [t |-> "str", v |-> v]
Num(v) == [t |-> "num", v |-> v]

\* JSON.stringify of an object {messageType, robotIds}.
JsonStringify(message) ==
    <<Punct("{"), Punct("messageType"), Str(message.messageType),
      Punct("robotIds"), Punct("[")>>
    \o [i \in 1..Len(message.robotIds) |-> Str(message.robotIds[i])]
    \o <<Punct("]"), Punct("}")>>

\* JSON.parse: throws SyntaxError on text that is not JSON; otherwise the
\* object, its robotIds being the array of the values found (robotIds is
\* absent from an object that has no such key).
JsonParse(text) ==
    IF /\ Len(text) >= 4
       /\ text[1] = Punct("{") /\ text[2] = Punct("messageType")
       /\ text[3].t = "str" /\ text[Len(text)] = Punct("}")
      THEN IF /\ Len(text) >= 7
              /\ text[4] = Punct("robotIds") /\ text[5] = Punct("[")
              /\ text[Len(text) - 1] = Punct("]")
             THEN [ok |-> TRUE, messageType |-> text[3].v, hasRobotIds |-> TRUE,
                   robotIds |-> SubSeq(text, 6, Len(text) - 2)]
             ELSE [ok |-> Len(text) = 4, messageType |-> text[3].v,
                   hasRobotIds |-> FALSE, robotIds |-> <<>>]
      ELSE [ok |-> FALSE, messageType |-> "", hasRobotIds |-> FALSE, robotIds |-> <<>>]

\* BaseDataChannelMessageSchema.parse: throws unless messageType is a member
\* of MType.
BaseDataChannelMessageSchema(value) == value.messageType \in MType

\* A schema nothing satisfies.
SchemaNeverSucceeds(value) == FALSE

\* robotsAvailableMessageSchema.safeParse(...).success: the base schema and
\* robotIds an array of strings.
RobotsAvailableMessageSchema(value) ==
    /\ BaseDataChannelMessageSchema(value)
    /\ value.hasRobotIds
    /\ \A i \in 1..Len(value.robotIds) : value.robotIds[i].t = "str"

\* parsedMessage.data.robotIds
ParsedRobotIds(value) == [i \in 1..Len(value.robotIds) |-> value.robotIds[i].v]

\* Text that reaches the viewer's channel from elsewhere: not JSON, a message
\* of a type MType does not have, a robotsAvailable message whose robotIds
\* holds a number, one without robotIds.
ForeignTexts ==
    { <<Punct("{")>>,
      <<Punct("{"), Punct("messageType"), Str("other"), Punct("}")>>,
      <<Punct("{"), Punct("messageType"), Str("robotsAvailable"),
        Punct("robotIds"), Punct("["), Num("1"), Punct("]"), Punct("}")>>,
      <<Punct("{"), Punct("messageType"), Str("robotsAvailable"), Punct("}")>> }

\* The pair after construction: nothing sent, _robotsAvailable = [].
InitRobots ==
    robots = [lastSent |-> <<>>, lastIds |-> <<>>, sendCalls |-> 0,
              inbox |-> <<>>, robotsAvailable |-> <<>>, received |-> 0,
              threw |-> 0]

\* Messages handed to the viewer's channel so far.
MetadataMessages == robots.received + Len(robots.inbox)

\* MetadataChannelMaster.sendRobotsAvailable(robotIds): the message object
\* is built, JSON.stringify makes its text and RobotDataChannel.send hands it
\* to the data channel, which carries it to the paired viewer.
SendRobotsAvailable(robotIds) ==
    /\ MetadataMessages < MaxMetadataMessages
    /\ LET message == [messageType |-> "robotsAvailable", robotIds |-> robotIds]
       IN  robots' = [robots EXCEPT
                        !.lastSent = JsonStringify(message),
                        !.lastIds = robotIds,
                        !.sendCalls = @ + 1,
                        !.inbox = Append(@, [own |-> TRUE, ids |-> robotIds,
                                             text |-> JsonStringify(message)])]
    /\ UNCHANGED <<driver, linkVars, masterVars, wrapperVars, sessionVars>>

\* Some other text arrives on the viewer's channel.
ForeignMessage(text) ==
    /\ MetadataMessages < MaxMetadataMessages
    /\ robots' = [robots EXCEPT
                    !.inbox = Append(@, [own |-> FALSE, ids |-> <<>>, text |-> text])]
    /\ UNCHANGED <<driver, linkVars, masterVars, wrapperVars, sessionVars>>

\* MetadataChannelViewer._onReceiveMessage, reached through
\* RobotDataChannel's onmessage: JSON.parse and the base schema throw on
\* text they do not accept; a robotsAvailable message that passes safeParse
\* replaces _robotsAvailable.
ViewerOnReceiveMessage ==
    /\ robots.inbox # <<>>
    /\ LET value == JsonParse(Head(robots.inbox).text)
       IN  robots' =
             IF ~value.ok \/ ~BaseDataChannelMessageSchema(value)
               THEN [robots EXCEPT !.inbox = Tail(@), !.received = @ + 1,
                                   !.threw = @ + 1]
               ELSE IF RobotsAvailableMessageSchema(value)
               THEN [robots EXCEPT !.inbox = Tail(@), !.received = @ + 1,
                                   !.robotsAvailable = ParsedRobotIds(value)]
               ELSE [robots EXCEPT !.inbox = Tail(@), !.received = @ + 1]
    /\ UNCHANGED <<driver, linkVars, masterVars, wrapperVars, sessionVars>>

NextRobots ==
    \/ \E robotIds \in RobotIdLists : SendRobotsAvailable(robotIds)
    \/ \E text \in ForeignTexts : ForeignMessage(text)
    \/ ViewerOnReceiveMessage

\* ------------------------------------------------------------- lab client: RobotDriver
\* The driver after construction: _robotConnected = false.
InitDriver ==
    driver = [robotConnected |-> FALSE, pending |-> 0, succeeded |-> 0,
              failed |-> 0, handed |-> 0, errors |-> 0]

\* A guard that lets every user through.
AlwaysConnected == TRUE

\* this._robotConnected, as connectUser reads it.
RobotConnected == driver.robotConnected

\* connectRobot() is called: it awaits the subclass's _connectRobot().
ConnectRobot ==
    /\ driver.pending + driver.succeeded + driver.failed < MaxConnectRobot
    /\ driver' = [driver EXCEPT !.pending = @ + 1]
    /\ UNCHANGED <<robots, linkVars, masterVars, wrapperVars, sessionVars>>

\* _connectRobot() resolved: connectRobot sets _robotConnected.
ConnectRobotResolved ==
    /\ driver.pending > 0
    /\ driver' = [driver EXCEPT !.pending = @ - 1, !.succeeded = @ + 1,
                                !.robotConnected = TRUE]
    /\ UNCHANGED <<robots, linkVars, masterVars, wrapperVars, sessionVars>>

\* _connectRobot() threw or rejected: connectRobot rejects at the await,
\* the assignment after it is not run.
ConnectRobotRejected ==
    /\ driver.pending > 0
    /\ driver' = [driver EXCEPT !.pending = @ - 1, !.failed = @ + 1]
    /\ UNCHANGED <<robots, linkVars, masterVars, wrapperVars, sessionVars>>

\* connectUser(peerConnection): throws unless the robot is connected,
\* else invokes the subclass's _connectUser(peerConnection).
ConnectUser ==
    /\ driver.handed + driver.errors < MaxConnectUser
    /\ driver' = IF RobotConnected
                   THEN [driver EXCEPT !.handed = @ + 1]
                   ELSE [driver EXCEPT !.errors = @ + 1]
    /\ UNCHANGED <<robots, linkVars, masterVars, wrapperVars, sessionVars>>

NextDriver ==
    \/ ConnectRobot
    \/ ConnectRobotResolved
    \/ ConnectRobotRejected
    \/ ConnectUser

\* ------------------------------------------------------------- outbound candidates
\* No candidate generated yet.
InitOutbound ==
    outbound = [count |-> 0, owner |-> "none", recipient |-> "none", result |-> "none"]

\* What SignalingClient.sendIceCandidate(candidate) can do for a MASTER when
\* no recipient client id is given: the message goes out without one, or the
\* client refuses it.
SendOutcomes == {"unaddressed", "throws"}

\* peer.onicecandidate of the wrapper of connection c, with a candidate:
\* signalingClient?.sendIceCandidate(candidate), that is
\* RTCSignalingBase.sendIceCandidate(candidate), that is
\* getSignalingClient()?.sendIceCandidate(candidate): the wrapper's
\* remoteClientId is not passed on. A client that is not open throws.
MasterOnLocalIceCandidate(c, outcome) ==
    /\ outbound.count < MaxLocalCandidates
    /\ conn[c].state = "new"
    /\ conn[c].handler \in {"done", "failed"}
    /\ outbound' = [count |-> outbound.count + 1,
                    owner |-> conn[c].owner,
                    recipient |-> "none",
                    result |-> IF session.client = "open" THEN outcome ELSE "throws"]
    /\ UNCHANGED <<starts, linkVars, masterVars, wrapperVars, labVars>>

NextOutbound ==
    \/ MasterStart
    \/ MasterInitDone
    \/ \E outcome \in FetchOutcomes : MasterTurnFetched(outcome)
    \/ MasterOnOpen
    \/ MasterOnClose
    \/ \E p \in PeerIds, correlationId \in CorrelationIds : MasterOnSdpOffer(p, correlationId)
    \/ \E c \in Conns :
          \/ MasterOfferApplied(c)
          \/ MasterAnswerMade(c)
          \/ MasterAnswered(c)
          \/ \E outcome \in SendOutcomes : MasterOnLocalIceCandidate(c, outcome)

\* ------------------------------------------------------------- start() called again
Starts == 1..MaxStarts

\* One RTCSignalingViewer after its constructor: no start() call, no
\* signaling client, _peerConnection undefined.
InitStarts ==
    starts = [calls |-> 0,
              pc |-> [k \in Starts |-> "idle"],
              clients |-> 0,
              handlers |-> [c \in Starts |-> 0],
              client |-> [c \in Starts |-> "absent"],
              opens |-> 0, runs |-> 0, links |-> 0, offers |-> 0]

\* RTCSignalingBase.start up to its first await, this._channelHelper.init():
\* nothing keeps a second call from entering while or after another runs.
StartCalled ==
    /\ starts.calls < MaxStarts
    /\ starts' = [starts EXCEPT !.calls = @ + 1, !.pc[starts.calls + 1] = "init"]
    /\ UNCHANGED <<outbound, linkVars, masterVars, wrapperVars, labVars>>

\* init() of call k resolved: _initializeClients has put a new
\* SignalingClient into _signalingClient, in place of the one before;
\* fetchTurnServers() is awaited.
StartInitDone(k) ==
    /\ starts.pc[k] = "init"
    /\ starts' = [starts EXCEPT !.pc[k] = "fetch",
                                !.clients = @ + 1,
                                !.client[starts.clients + 1] = "new"]
    /\ UNCHANGED <<outbound, linkVars, masterVars, wrapperVars, labVars>>

\* init() of call k rejected (a request of _initializeClients failed):
\* start() ends there, no client is created.
StartInitFailed(k) ==
    /\ starts.pc[k] = "init"
    /\ starts' = [starts EXCEPT !.pc[k] = "failed"]
    /\ UNCHANGED <<outbound, linkVars, masterVars, wrapperVars, labVars>>

\* fetchTurnServers() of call k settled: when it threw start() ends;
\* otherwise getSignalingClient() gives the client created last, the
\* handlers are registered on it and open() is called, which throws on a
\* client that is not closed.
StartTurnFetched(k, outcome) ==
    /\ starts.pc[k] = "fetch"
    /\ starts' =
          IF FetchTurnServers(outcome) = "throws"
            THEN [starts EXCEPT !.pc[k] = "failed"]
            ELSE LET c == starts.clients
                 IN  IF starts.client[c] = "new"
                       THEN [starts EXCEPT !.pc[k] = "done",
                                           !.handlers[c] = @ + 1,
                                           !.client[c] = "connecting"]
                       ELSE [starts EXCEPT !.pc[k] = "failed",
                                           !.handlers[c] = @ + 1]
    /\ UNCHANGED <<outbound, linkVars, masterVars, wrapperVars, labVars>>

\* 'open' event of signaling client c: every 'open' handler registered on
\* it runs; each makes a new RTCPeerWrapper as initiator, whose constructor
\* starts the initial offer, and stores it in _peerConnection; what
\* _peerConnection held is not closed.
StartOnOpen(c) ==
    /\ starts.client[c] = "connecting"
    /\ starts' = [starts EXCEPT !.client[c] = "open",
                                !.opens = @ + 1,
                                !.runs = starts.handlers[c],
                                !.links = @ + starts.handlers[c],
                                !.offers = @ + starts.handlers[c]]
    /\ UNCHANGED <<outbound, linkVars, masterVars, wrapperVars, labVars>>

\* Links the session has made, has not closed and no longer holds.
Unreferenced == IF starts.links > 0 THEN starts.links - 1 ELSE 0

NextStart ==
    \/ StartCalled
    \/ \E k \in Starts :
          \/ StartInitDone(k)
          \/ StartInitFailed(k)
          \/ \E outcome \in FetchOutcomes : StartTurnFetched(k, outcome)
          \/ StartOnOpen(k)

\* ------------------------------------------------------------- specification
NextLink ==
    \/ ViewerOpen
    \/ InitialOfferCreated
    \/ InitialOfferSent
    \/ MasterSdpOffer
    \/ MasterRemoteApplied
    \/ MasterAnswerCreated
    \/ MasterAnswerSent
    \/ ViewerSdpAnswer
    \/ ViewerAnswerApplied
    \/ ViewerMasterConnected
    \/ MetadataOnOpen
    \/ OnDataChannel
    \/ \E s \in Sides :
          \/ Connected(s)
          \/ OnTestMessage(s)
          \/ NegotiationNeeded(s)
          \/ NegotiationOfferCreated(s)
          \/ NegotiationOfferSent(s)
          \/ OnSdpOfferMessage(s)
          \/ RequestedRemoteApplied(s)
          \/ RequestedAnswerCreated(s)
          \/ RequestedAnswerSent(s)
          \/ OnSdpAnswerMessage(s)
          \/ AddStream(s)
          \/ CreateDataChannel(s)
          \/ CallAwaitReadyToNegotiate(s)
          \/ Close(s)

Init == InitLink /\ InitMaster /\ InitWrapper /\ InitControl /\ InitRegistry /\ InitRobots /\ InitDriver
        /\ InitOutbound /\ InitStarts

SpecLink == Init /\ [][NextLink]_vars

SpecMaster == Init /\ [][NextMaster]_vars

SpecWrapper == Init /\ [][NextWrapper]_vars
SpecIce == Init /\ [][NextIce]_vars
SpecControl == Init /\ [][NextControl]_vars
SpecSingleton == Init /\ [][NextSingleton]_vars
SpecRobots == Init /\ [][NextRobots]_vars
SpecDriver == Init /\ [][NextDriver]_vars
SpecOutbound == Init /\ [][NextOutbound]_vars
SpecStart == Init /\ [][NextStart]_vars


\* The event loop runs every handler that is ready, every platform promise
\* settles and every message in an open channel is delivered; callers
\* (addStream, createDataChannel, awaitReadyToNegotiate, close) act when they
\* choose to.
FairLink ==
    /\ SpecLink
    /\ WF_vars(ViewerOpen)
    /\ WF_vars(InitialOfferCreated)
    /\ WF_vars(InitialOfferSent)
    /\ WF_vars(MasterSdpOffer)
    /\ WF_vars(MasterRemoteApplied)
    /\ WF_vars(MasterAnswerCreated)
    /\ WF_vars(MasterAnswerSent)
    /\ WF_vars(ViewerSdpAnswer)
    /\ WF_vars(ViewerAnswerApplied)
    /\ WF_vars(ViewerMasterConnected)
    /\ WF_vars(MetadataOnOpen)
    /\ WF_vars(OnDataChannel)
    /\ \A s \in Sides :
          /\ WF_vars(Connected(s))
          /\ WF_vars(OnTestMessage(s))
          /\ WF_vars(NegotiationNeeded(s))
          /\ WF_vars(NegotiationOfferCreated(s))
          /\ WF_vars(NegotiationOfferSent(s))
          /\ WF_vars(OnSdpOfferMessage(s))
          /\ WF_vars(RequestedRemoteApplied(s))
          /\ WF_vars(RequestedAnswerCreated(s))
          /\ WF_vars(RequestedAnswerSent(s))
          /\ WF_vars(OnSdpAnswerMessage(s))

\* One step of the event loop: some handler that is ready runs, some
\* platform promise settles or some message in an open channel is delivered.
HandlerStep ==
    \/ ViewerOpen
    \/ InitialOfferCreated
    \/ InitialOfferSent
    \/ MasterSdpOffer
    \/ MasterRemoteApplied
    \/ MasterAnswerCreated
    \/ MasterAnswerSent
    \/ ViewerSdpAnswer
    \/ ViewerAnswerApplied
    \/ ViewerMasterConnected
    \/ MetadataOnOpen
    \/ OnDataChannel
    \/ \E s \in Sides :
          \/ Connected(s)
          \/ OnTestMessage(s)
          \/ NegotiationNeeded(s)
          \/ NegotiationOfferCreated(s)
          \/ NegotiationOfferSent(s)
          \/ OnSdpOfferMessage(s)
          \/ RequestedRemoteApplied(s)
          \/ RequestedAnswerCreated(s)
          \/ RequestedAnswerSent(s)
          \/ OnSdpAnswerMessage(s)

\* The link with the callers that bear on negotiation: addStream and close.
NextNegotiation ==
    \/ HandlerStep
    \/ \E s \in Sides :
          \/ AddStream(s)
          \/ Close(s)

\* The weakest scheduling the event loop gives: while something is ready,
\* the loop does not stand still.
FairNegotiation == Init /\ [][NextNegotiation]_vars /\ WF_vars(HandlerStep)

\* The initial handshake and the probe exchange alone: every handler and
\* platform event from the signaling client opening to 'ready' on both sides.
HandshakeStep ==
    \/ ViewerOpen
    \/ InitialOfferCreated
    \/ InitialOfferSent
    \/ MasterSdpOffer
    \/ MasterRemoteApplied
    \/ MasterAnswerCreated
    \/ MasterAnswerSent
    \/ ViewerSdpAnswer
    \/ ViewerAnswerApplied
    \/ ViewerMasterConnected
    \/ MetadataOnOpen
    \/ OnDataChannel
    \/ \E s \in Sides :
          \/ Connected(s)
          \/ OnTestMessage(s)

\* The handshake with the callers that bear on it: awaitReadyToNegotiate and
\* close.
NextHandshake ==
    \/ HandshakeStep
    \/ \E s \in Sides :
          \/ CallAwaitReadyToNegotiate(s)
          \/ Close(s)

FairHandshake == Init /\ [][NextHandshake]_vars /\ WF_vars(HandshakeStep)

\* The viewer's application calls addStream once both connections are
\* connected.
AddStreamWhenConnected ==
    /\ \A t \in Sides : connState[t] = "connected"
    /\ AddStream("viewer")

\* The end-to-end scenario: the handshake, then the viewer adds streams, and
\* the master's application awaits readiness; nobody closes.
NextScenario ==
    \/ HandlerStep
    \/ AddStreamWhenConnected
    \/ CallAwaitReadyToNegotiate("master")

FairScenario == Init /\ [][NextScenario]_vars /\ WF_vars(HandlerStep)

\* ------------------------------------------------------------- claims, SpecLink
\* C1: a side sends no sdpOffer over the metadata channel before its own
\* PeerMetadataChannel has emitted 'ready' (has received the remote probe).
C1_NoOfferBeforeReady ==
    \A s \in Sides : log[s].ctlOffer > 0 => readyEvents[s] > 0

\* C2: a mutation whose negotiation was skipped because the metadata channel
\* did not exist yet is eventually covered by an sdpOffer sent over the
\* metadata channel, or an error is surfaced once the link is closed.
C2_DeferredEventuallyServiced ==
    \A s \in Sides :
        [](log[s].deferredMut > 0 =>
             <>(\/ log[s].sentContains >= log[s].deferredMut
                \/ Closed(s) /\ log[s].surfaced > 0))

\* C3: while _onNegotiationNeeded creates and applies a new local offer the
\* link is Stable: no earlier sdpOffer of this side is unanswered and no
\* remote offer is being answered.
C3_OfferOnlyWhenStable ==
    \A s \in Sides :
        nnPc[s] # "idle" =>
            /\ sigState[s] \in {"stable", "closed"}
            /\ rqPc[s] = <<>>
            /\ ~log[s].outstanding

\* C4: a promise of awaitReadyToNegotiate() is resolved only after the
\* PeerMetadataChannel of that side has received the remote probe.
C4_ResolvedOnlyWhenReady ==
    /\ \A s \in Sides : awaitPc[s] = "resolved" => readyEvents[s] > 0
    /\ answerPc \in {"resolved", "done"} => readyEvents["viewer"] > 0

\* C5: over the signaling client the viewer sends at most one offer and the
\* master at most one answer, and nothing else is sent there: every
\* renegotiation offer travels over the metadata channel.
C5_RenegotiationBypassesSignaling ==
    /\ log["viewer"].rdvOffer <= 1
    /\ log["master"].rdvAnswer <= 1
    /\ log["viewer"].rdvAnswer = 0
    /\ log["master"].rdvOffer = 0
    /\ \A s \in Sides : Len(rdv[s]) <= 1
    /\ \A s \in Sides : log[s].ctlOffer > 0 =>
          log["viewer"].rdvOffer = 1 /\ log["master"].rdvAnswer = 1

C5_Witness ==
    /\ \A s \in Sides : log[s].ctlOffer > 0
    /\ \E s \in Sides : \E i \in 1..Len(ctl[s]) : ctl[s][i].type = "sdpAnswer"

\* C10: an invocation of _onNegotiationRequested that has asked for the
\* answer (createAnswer, setLocalDescription(answer)) has seen its offer
\* applied successfully as the remote description.
C10_AnswerOnlyAfterApplied ==
    \A s \in Sides : \A i \in 1..Len(rqPc[s]) :
        rqPc[s][i].pc \in {"createAnswer", "setLocalDescription"} =>
            rqPc[s][i].applied = "ok"

\* C17: the viewer session creates its RTCPeerWrapper when the signaling
\* client opens, before any answer is handled, and sends one offer over the
\* signaling client; onMasterConnected is invoked only once the answer has
\* been applied as the remote description and the viewer's PeerMetadataChannel
\* exists and has received the remote probe.
C17_OffererHandshakeOrder ==
    /\ initPc # "idle" => exists["viewer"]
    /\ log["viewer"].rdvOffer <= 1
    /\ answerPc # "idle" => exists["viewer"] /\ log["viewer"].rdvOffer = 1
    /\ answerPc \in {"resolved", "done"} =>
          /\ Described("viewer")
          /\ log["master"].rdvAnswer = 1
          /\ metadataChannel["viewer"]
          /\ readyEvents["viewer"] > 0

C17_Witness ==
    /\ answerPc = "done"
    /\ log["viewer"].rdvOffer = 1
    /\ readyEvents["viewer"] > 0
    /\ ~Closed("viewer")

\* C12: when an sdpAnswer handled by _onNegotiationAnswer cannot be applied
\* (no local offer is pending on an open connection), the error reaches the
\* session's error callback and the connection stays open.
C12_FailureSurfaced ==
    [][\A s \in Sides :
          /\ Deliverable(s, "sdpAnswer")
          /\ ctl'[s] = Tail(ctl[s])
          /\ connState' = connState
          /\ ~Closed(s)
          /\ sigState[s] # "have-local-offer"
          => /\ log'[s].surfaced = log[s].surfaced + 1
             /\ connState'[s] = connState[s]]_vars

\* ------------------------------------------------------------- claims, FairLink
\* A renegotiation of side s is under way: its own offer is pending, a
\* remote offer is applied and not yet answered, or a handler of either kind
\* is running.
Renegotiating(s) ==
    /\ log[s].ctlOffer > 0 \/ log[Other(s)].ctlOffer > 0
    /\ sigState[s] \in {"have-local-offer", "have-remote-offer"}

\* C11: an sdpAnswer received while this side's offer is pending is applied
\* and leaves the side Stable; and while neither side is closed, a side that
\* left Stable in a renegotiation, glare included, is eventually Stable
\* again.
C11_RenegotiationReturnsToStable ==
    /\ [][\A s \in Sides :
             /\ Deliverable(s, "sdpAnswer")
             /\ ctl'[s] = Tail(ctl[s])
             /\ sigState[s] = "have-local-offer"
             /\ connState' = connState
             => sigState'[s] = "stable"]_vars
    /\ \A s \in Sides :
          Renegotiating(s) ~> (sigState[s] = "stable" \/ \E t \in Sides : Closed(t))

\* Both sides have sent an sdpOffer that crossed the other's (glare), both
\* have been answered and both are Stable again.
C11_Witness ==
    /\ \A s \in Sides : log[s].ctlOffer > 0 /\ sigState[s] = "stable" /\ ~Closed(s)
    /\ \A s \in Sides : ~log[s].outstanding
    /\ \A s \in Sides : ctl[s] = <<>> /\ rqPc[s] = <<>> /\ nnPc[s] = "idle"
    /\ \E s \in Sides : localCovered[s] < mutations[s]

\* ------------------------------------------------------------- claims, FairScenario
\* C29: a stream the viewer adds once both sides are connected comes to be
\* part of an sdpOffer sent over the metadata channel, which the master
\* applies and answers, and the viewer comes to apply that answer: the
\* viewer's negotiated description then contains every stream it added.
C29_AddedStreamIsNegotiated ==
    mutations["viewer"] > 0
       ~> (/\ log["viewer"].ctlOffer > 0
           /\ localCovered["viewer"] > 0)

\* ------------------------------------------------------------- claims, FairHandshake
\* C24: a side sends its probe in the step that constructs its
\* PeerMetadataChannel; once the metadata channel is open on both sides, both
\* sides come to emit 'ready'; and every awaitReadyToNegotiate() that is
\* waiting comes to resolve, the one in the viewer's 'sdpAnswer' handler
\* included; unless a side is closed first.
C24_ProbeHandshakeCompletes ==
    /\ [][\A s \in Sides :
             metadataChannel'[s] /\ ~metadataChannel[s] =>
                ctl'[Other(s)] = Append(ctl[Other(s)], TestMessage)]_vars
    /\ (\A s \in Sides : chState[s] = "open")
          ~> ((\A s \in Sides : readyEvents[s] > 0) \/ \E t \in Sides : Closed(t))
    /\ \A s \in Sides :
          awaitPc[s] \in {"awaitOpened", "awaitReady"}
             ~> (awaitPc[s] = "resolved" \/ \E t \in Sides : Closed(t))
    /\ answerPc \in {"awaitOpened", "awaitReady"}
          ~> (answerPc \in {"resolved", "done"} \/ \E t \in Sides : Closed(t))

C24_Witness ==
    /\ \A s \in Sides : readyEvents[s] > 0 /\ awaitPc[s] = "resolved" /\ ~Closed(s)
    /\ answerPc = "done"
    /\ \A s \in Sides : ctl[s] = <<>>

\* ------------------------------------------------------------- claims, SpecMaster
\* Everything the wrapper of this connection holds is released: the
\* connection is closed, no received track is live, no data channel is open.
FullyClosed(c) ==
    /\ conn[c].state = "closed"
    /\ conn[c].tracks # "live"
    /\ conn[c].dataChannels # "open"

\* C6: once a peer id has sent a second offer to a running session, every
\* offer of that peer has
\* produced a PeerLink, exactly one of them is still open and registered for
\* the peer id, and every earlier one is fully closed.
C6_ReplacementClosesFirst ==
    \A p \in PeerIds :
        offers[p] >= 2 /\ session.cleanups = 0 =>
            /\ Cardinality({c \in Conns : conn[c].owner = p}) = offers[p]
            /\ peerConnections[p] # 0
            /\ conn[peerConnections[p]].state = "new"
            /\ \A c \in Conns :
                  conn[c].owner = p /\ c # peerConnections[p] => FullyClosed(c)

\* C7: when the 'sdpOffer' handler has finished for an inbound offer, the
\* answer has been sent once and onPeerConnected has been invoked once for
\* the new PeerLink.
C7_AnswerThenPeerConnected ==
    /\ \A c \in Conns : conn[c].handler = "done" => conn[c].answers = 1
    /\ callbacks.onPeerConnected =
          Cardinality({c \in Conns : conn[c].handler = "done"})

\* C8: a candidate tagged with peer id X is passed only to the connection
\* created for X; the event invokes no callback of the session and leaves
\* the connection of every other peer id as it was.
C8_CandidateOnlyToItsPeer ==
    /\ [](\A c \in Conns : conn[c].candidates \subseteq {conn[c].owner})
    /\ [][iceLog'.count = iceLog.count + 1 =>
             /\ callbacks' = callbacks
             /\ peerConnections' = peerConnections
             /\ \A c \in Conns : conn[c].owner # iceLog'.peer => conn'[c] = conn[c]]_vars

C8_Witness ==
    /\ iceLog.count > 0
    /\ \E c \in iceLog.listeners : conn[c].owner # iceLog.peer /\ conn[c].state = "new"
    /\ \E c \in iceLog.listeners : iceLog.peer \in conn[c].candidates

Stopped ==
    session.cleanups > 0 /\ session.client \in {"closing", "aborting", "closed"}

C16_TurnFailureDegrades ==
    session.startPc \notin {"idle", "init", "fetch"} =>
        /\ "stun" \in session.iceServers
        /\ session.startPc = "done"
        /\ session.registered
        /\ session.client \notin {"none", "created"}

\* C15: a session whose signaling client has closed, by cleanup() or by the
\* service, is Closed: from then on isRunning() is false.
C15_ClosedIsTerminal == session.client = "closed" => ~IsRunning

C33_CandidateAddressedToOwner ==
    outbound.count > 0 =>
        /\ outbound.result # "throws"
        /\ outbound.recipient = outbound.owner

\* ------------------------------------------------------------- claims, SpecStart
\* C34: however many times start() is called on a session, each 'open'
\* event of the signaling channel is handled once, making one peer
\* connection and one initial offer, and no link made earlier is left open
\* and unreferenced.
C34_EventHandledOnce ==
    /\ starts.opens > 0 => starts.runs = 1
    /\ starts.links = starts.opens
    /\ starts.offers = starts.opens
    /\ Unreferenced = 0

\* ------------------------------------------------------------- claims, SpecSingleton
\* C27: of the instances of a session class at most one has a signaling
\* client that is connecting or open.
C27_OneLiveInstance == Cardinality({i \in Instances : Live(i)}) <= 1

\* C28: an instance on which cleanup() has run to its end makes no further
\* delivery: a start() that was still awaiting init() or fetchTurnServers()
\* at that time is discarded, so the instance's signaling client is never
\* connecting or open afterwards.
C28_StoppedStaysStopped ==
    \A i \in Instances : registry.inst[i].stopped => ~Live(i)

\* C36: cleanup() runs to its end on an instance in any state, also one whose
\* start() never ran: an instance on which cleanup() has been called is no
\* longer the singleton, so the next getInstance() makes a new one.
C36_CleanupAlwaysClearsSingleton ==
    \A i \in Instances : registry.inst[i].cleanups > 0 => registry.singleton # i

\* ------------------------------------------------------------- claims, SpecWrapper
\* C18: no candidate given to addIceCandidate of an open connection is
\* rejected for want of a remote description: one that comes before the
\* description is set waits and is applied once it is.
C18_CandidateBeforeDescriptionSafe == ice.rejected = 0

\* C19: the label "metadata" is kept for the PeerMetadataChannel:
\* createDataChannel never puts a channel under that label into _dataChannels.
C19_MetadataLabelReserved == dataChannels["metadata"] = "absent"

\* C20: after any addStream calls _streams holds a local stream under every
\* label used, and addStream has emitted 'localStreamAdded' once per call.
C20_OneEventPerAddStream ==
    /\ \A k \in StreamKeys : added.stored[k] # "none" => streams[k] \in {"local", "ended"}
    /\ added.localStreamAdded = added.calls

\* C21: 'remoteStreamAdded' has been emitted exactly once for every stream id
\* a track event has carried, and never for an id none has carried.
C21_OneEventPerRemoteStream ==
    \A k \in StreamKeys :
        intake.remoteStreamAdded[k] = IF intake.tracks[k] > 0 THEN 1 ELSE 0

\* C22: a datachannel event for the label 'metadata' makes the channel the
\* PeerMetadataChannel, stores nothing in _dataChannels and emits no
\* 'remoteDataChannelOpened'; one for any other label stores the channel under
\* its label, emits 'remoteDataChannelOpened' once and leaves the
\* PeerMetadataChannel alone.
C22_RemoteChannelIntake ==
    [][\A l \in Labels :
          intake'.channels[l] = intake.channels[l] + 1 =>
             IF l = "metadata"
               THEN /\ wrapperMetadata' = "open"
                    /\ intake'.metadataChannelOpened = intake.metadataChannelOpened + 1
                    /\ dataChannels' = dataChannels
                    /\ intake'.remoteDataChannelOpened = intake.remoteDataChannelOpened
               ELSE /\ dataChannels' = [dataChannels EXCEPT ![l] = "open"]
                    /\ intake'.remoteDataChannelOpened =
                          intake.remoteDataChannelOpened + 1
                    /\ wrapperMetadata' = wrapperMetadata
                    /\ intake'.metadataChannelOpened = intake.metadataChannelOpened]_vars

C22_Witness ==
    /\ intake.channels["metadata"] = 1
    /\ intake.channels["data"] = 1
    /\ intake.remoteDataChannelOpened = 1
    /\ wrapperMetadata = "open"
    /\ dataChannels = [l \in Labels |-> IF l = "data" THEN "open" ELSE "absent"]

\* C26: while the connection of a wrapper is closed, no data channel of the
\* wrapper is open and no stream in _streams has a live track.
C26_ClosedLinkHoldsNothingLive ==
    peer = "closed" =>
        /\ \A l \in Labels : dataChannels[l] # "open"
        /\ \A k \in StreamKeys : streams[k] \notin {"local", "remote"}

\* What close() releases, released.
Released ==
    /\ peer = "closed"
    /\ wrapperMetadata # "open"
    /\ \A l \in Labels : dataChannels[l] # "open"
    /\ \A k \in StreamKeys : streams[k] \notin {"local", "remote"}

\* C9: however often close() is called, each of its closing statements runs
\* at most once; the call that finds the connection open leaves the data
\* channels, the tracks, the metadata channel and the connection closed; and
\* every call after the first changes nothing.
C9_CloseIdempotent ==
    /\ [](/\ closeLog.dataChannels <= 1
          /\ closeLog.tracks <= 1
          /\ closeLog.metadata <= 1
          /\ closeLog.peer <= 1
          /\ closeLog.calls >= 1 => peer = "closed")
    /\ [][closeLog'.peer = closeLog.peer + 1 => Released']_vars
    /\ [][closeLog'.calls = closeLog.calls + 1 /\ closeLog.calls >= 1 =>
             /\ UNCHANGED <<peer, streams, dataChannels, wrapperMetadata>>
             /\ closeLog' = [closeLog EXCEPT !.calls = @ + 1]]_vars

C9_Witness ==
    /\ closeLog.calls = 2
    /\ closeLog.peer = 1
    /\ closeLog.metadata = 1
    /\ wrapperMetadata = "closed"
    /\ \E l \in Labels : dataChannels[l] = "closed"
    /\ \E k \in StreamKeys : streams[k] = "ended"

\* ------------------------------------------------------------- claims, SpecControl
\* C23: a PeerMetadataChannel has emitted 'ready' once if it has received a
\* probe and not at all otherwise: no other message and no send emits it, and
\* a second probe does not emit it again.
C23_ReadyOncePerChannel == control.ready = IF control.probes > 0 THEN 1 ELSE 0

\* C25: a message whose type the switch has no case for is ignored: neither
\* callback is invoked, 'ready' is not emitted, nothing is sent, the channel
\* stays as it is, and the wrapper and its connection are not touched.
C25_UnknownTypeIgnored ==
    [][control'.received = control.received + 1 /\ control'.last = "other" =>
          /\ control' = [control EXCEPT !.unknown = @ + 1, !.received = @ + 1,
                                        !.last = "other"]
          /\ UNCHANGED <<peer, wrapperMetadata, linkVars>>]_vars

C25_Witness ==
    /\ control.unknown = 1
    /\ control.received = 3
    /\ control.ready = 1
    /\ control.onSdpOffer = 1
    /\ control.channel = "open"

\* ------------------------------------------------------------- claims, SpecWrapper (streams)
\* C37: local and remote streams of one wrapper do not interfere: a track
\* event whose stream id equals the label of a local stream still emits
\* 'remoteStreamAdded' and leaves the local stream in place, and addStream
\* under a label that is the id of a stored remote stream does not replace
\* that remote stream.
C37_LocalAndRemoteStreamsApart ==
    [][\A k \in StreamKeys :
         /\ streams[k] = "local" /\ intake'.tracks[k] = intake.tracks[k] + 1 =>
               /\ intake'.remoteStreamAdded[k] = intake.remoteStreamAdded[k] + 1
               /\ streams'[k] = "local"
         /\ streams[k] = "remote" /\ added'.calls = added.calls + 1 =>
               streams'[k] = "remote"]_vars

\* ------------------------------------------------------------- claims, SpecMaster (teardown)
\* C35: onSignalingDisconnect is called once for the teardown of a session:
\* when cleanup() has called it, the 'close' event of the signaling client
\* that follows does not call it a second time.
C35_DisconnectNotifiedOnce ==
    [][callbacks'.onSignalingDisconnect = callbacks.onSignalingDisconnect + 1 =>
          callbacks.onSignalingDisconnect = 0]_vars

\* ------------------------------------------------------------- claims, SpecRobots
\* C31: sendRobotsAvailable(ids) makes the master's channel send the JSON
\* text of {messageType: robotsAvailable, robotIds: ids} and nothing else,
\* and when the viewer handles that message its robotsAvailable becomes ids.
C31_RobotsAvailableRoundTrip ==
    /\ [][robots'.sendCalls = robots.sendCalls + 1 =>
             /\ Len(robots'.lastSent) = Len(robots'.lastIds) + 7
             /\ SubSeq(robots'.lastSent, 1, 5) =
                   <<Punct("{"), Punct("messageType"), Str("robotsAvailable"),
                     Punct("robotIds"), Punct("[")>>
             /\ \A i \in 1..Len(robots'.lastIds) :
                   robots'.lastSent[5 + i] = Str(robots'.lastIds[i])
             /\ SubSeq(robots'.lastSent, Len(robots'.lastSent) - 1,
                       Len(robots'.lastSent)) = <<Punct("]"), Punct("}")>>
             /\ robots'.inbox = Append(robots.inbox,
                    [own |-> TRUE, ids |-> robots'.lastIds, text |-> robots'.lastSent])]_vars
    /\ [][robots'.received = robots.received + 1 /\ Head(robots.inbox).own =>
             robots'.robotsAvailable = Head(robots.inbox).ids]_vars

C31_Witness ==
    /\ robots.received = 2
    /\ robots.sendCalls = 2
    /\ robots.robotsAvailable = <<"robot1", "robot2">>
    /\ robots.lastIds = <<"robot1", "robot2">>

\* ------------------------------------------------------------- claims, SpecDriver
\* C38: _connectUser is invoked only when a connectRobot() has completed
\* successfully before; a connectUser call made before that fails with an
\* error and changes nothing of the driver; a connectRobot() that fails does
\* not set robotConnected, which is true only after a successful one.
C38_UserOnlyAfterRobot ==
    /\ [](driver.robotConnected => driver.succeeded > 0)
    /\ [][driver'.handed = driver.handed + 1 => driver.succeeded > 0]_vars
    /\ [][driver.succeeded = 0 /\ driver'.handed + driver'.errors = driver.handed + driver.errors + 1 =>
             driver' = [driver EXCEPT !.errors = @ + 1]]_vars
    /\ [][driver'.failed = driver.failed + 1 =>
             driver'.robotConnected = driver.robotConnected]_vars

C38_Witness ==
    /\ driver.errors > 0
    /\ driver.failed > 0
    /\ driver.succeeded > 0
    /\ driver.handed > 0

====
